---- MODULE Spec2Model ----
(***************************************************************************)
(* Model of backend/video_processing/screenshot_extractor.py:              *)
(* the timestamp planner (_deduplicate_timestamps, _validate_timestamp,    *)
(* _prepare_extraction_tasks), the bounded extraction executor             *)
(* (_extract_single_screenshot, _batch_extract_screenshots), the duration  *)
(* probe (_get_video_duration_ms) and the run (extract_event_screenshots,  *)
(* _update_events_with_screenshots); and of the readiness gate             *)
(* GeminiClient._upload_file_with_retry in gemini_client.py.               *)
(*                                                                         *)
(* Python values are modelled as follows.                                  *)
(*   Optional[T]     None is <<>>, a present value x is <<x>>              *)
(*   float('inf')    Inf, an integer above every modelled duration         *)
(*   list            a sequence                                            *)
(*   dict            a sequence of <<key, value>> pairs in insertion order *)
(*   seconds (float) an exact rational <<numerator, denominator>>          *)
(*   Path / name     the tuple of the fields the f-string formats          *)
(* Durations are whole milliseconds; float rounding is not modelled.       *)
(***************************************************************************)
EXTENDS Integers, Sequences, FiniteSets, TLC

VARIABLES
    \* ---- planner ----
    events,              \* the events' timestamp_ms, in list order (argument `events`)
    video_duration_ms,   \* argument of _prepare_extraction_tasks ("inf" when the probe failed)
    dedup_threshold_ms,  \* self.config.dedup_threshold_ms
    unique_timestamps,   \* local of the latest _prepare_extraction_tasks call (line 253)
    extraction_tasks,    \* the dict returned by the latest _prepare_extraction_tasks call
    plan_history,        \* per _prepare_extraction_tasks call so far: its events and its result
    \* ---- executor ----
    semaphore,           \* self._semaphore._value: free permits
    call_pc,             \* per batch call: position of the coordinating thread
    call_tasks,          \* per batch call: argument `extraction_tasks` (a dict)
    submitted,           \* per batch call: number of tasks submitted so far (loop at 357)
    work_queue,          \* per batch call: the pool's FIFO of submitted, not yet started tasks
    task_pc,             \* per batch call, per task key: position of the worker running it
    tool_result,         \* per batch call, per task key: how the ffmpeg invocation ended
    future,              \* per batch call, per task key: the future's state and value
    invocations,         \* per batch call, per task key: subprocess.run calls made for it
    results,             \* per batch call: the `results` dict
    recorded,            \* per batch call, per task key: writes made to results[key]
    raised,              \* per batch call: TRUE once an exception left the call
    \* ---- duration probe ----
    probe_pc,            \* "idle", "trying", "returned" or "raised"
    probe_i,             \* loop variable i of `for i, cmd in enumerate(methods)`
    probe_log,           \* the ffprobe invocations made: strategy index and tool report
    probe_result,        \* the value returned by _get_video_duration_ms
    \* ---- run: extract_event_screenshots ----
    run_pc,              \* the statement of extract_event_screenshots to run next
    run_events,          \* argument `events`: the VideoEvent objects
    events_before,       \* the VideoEvent objects as they were when the run began
    video_exists,        \* video_path_obj.exists()
    mkdir_calls,         \* calls of screenshots_dir.mkdir made
    path_writes,         \* per event: assignments to event.screenshot_path made
    \* ---- readiness gate ----
    gate_pc,             \* "idle", "upload", "poll", "except", "returned" or "raised"
    attempt,             \* loop variable of `for attempt in range(max_retries)`
    poll_i,              \* iterations of `for _ in range(10)` completed
    uploaded_file,       \* local uploaded_file: name and state.name
    uploads,             \* genai.upload_file calls made
    polls,               \* genai.get_file calls made
    attempt_polls,       \* genai.get_file calls made since the latest upload call
    last_poll,           \* the name the latest genai.get_file call asked for
    active_seen,         \* the service has answered ACTIVE
    calls_after_active,  \* service calls made after it had answered ACTIVE
    gate_result,         \* the value returned by _upload_file_with_retry
    \* ---- callers of the gate ----
    caller,              \* the method that called the gate
    caller_pc,           \* "idle", "gate", "generate" or "returned"
    generate_calls,      \* self.client.generate_content calls made
    generate_arg,        \* the file handle passed to generate_content
    caller_result,       \* what the caller returned: "none" while it runs
    caller_raised,       \* TRUE once an exception left the caller
    \* ---- capture command ----
    build_pc,            \* "idle", "build" or "built"
    build_config,        \* self.config: image_format, image_quality, fast_seek
    build_timestamp_sec, \* argument timestamp_sec
    build_output_path,   \* argument output_path
    cmd                  \* the list returned by _build_ffmpeg_command

plannerVars == <<events, video_duration_ms, dedup_threshold_ms, unique_timestamps,
                 extraction_tasks, plan_history>>
executorVars == <<semaphore, call_pc, call_tasks, submitted, work_queue, task_pc,
                  tool_result, future, invocations, results, recorded, raised>>
probeVars == <<probe_pc, probe_i, probe_log, probe_result>>
runVars == <<run_pc, run_events, events_before, video_exists, mkdir_calls, path_writes>>
gateVars == <<gate_pc, attempt, poll_i, uploaded_file, uploads, polls, attempt_polls,
              last_poll, active_seen, calls_after_active, gate_result>>
vars == <<events, video_duration_ms, dedup_threshold_ms, unique_timestamps,
          extraction_tasks, plan_history,
          semaphore, call_pc, call_tasks, submitted, work_queue, task_pc,
          tool_result, future, invocations, results, recorded, raised,
          probe_pc, probe_i, probe_log, probe_result,
          run_pc, run_events, events_before, video_exists, mkdir_calls, path_writes,
          gate_pc, attempt, poll_i, uploaded_file, uploads, polls, attempt_polls,
          last_poll, active_seen, calls_after_active, gate_result,
          caller, caller_pc, generate_calls, generate_arg, caller_result, caller_raised,
          build_pc, build_config, build_timestamp_sec, build_output_path, cmd>>
commandVars == <<build_pc, build_config, build_timestamp_sec, build_output_path, cmd>>
callerVars == <<caller, caller_pc, generate_calls, generate_arg, caller_result,
                caller_raised>>
\* everything but one component's variables
notPlannerVars == <<executorVars, probeVars, runVars, gateVars, callerVars, commandVars>>
notExecutorVars == <<plannerVars, probeVars, runVars, gateVars, callerVars, commandVars>>
notProbeVars == <<plannerVars, executorVars, runVars, gateVars, callerVars, commandVars>>
notGateVars == <<plannerVars, executorVars, probeVars, runVars, callerVars, commandVars>>
notCallerVars == <<plannerVars, executorVars, probeVars, runVars, gateVars, commandVars>>
notCommandVars == <<plannerVars, executorVars, probeVars, runVars, gateVars, callerVars>>

None == <<>>
Some(x) == <<x>>
Val(o) == o[1]
Inf == 2147483647

-----------------------------------------------------------------------------
(* Bounds of the model *)

MaxEvents == 4
MaxPlanRuns == 2
\* tasks in the plans handed to the executor, all batch calls together
MaxTasks == 3
\* ScreenshotConfig.max_concurrent_extractions as configured in the model
max_concurrent_extractions == 2
\* batch calls made on one ScreenshotExtractor instance, possibly overlapping
Calls == {1, 2}

\* timestamp_ms values an event may carry (VideoEvent.timestamp_ms: Optional[int])
EventTimestamps == {None} \cup {Some(t) : t \in {-1, 0, 400, 800, 1200}}
\* durations the probe may report (ms), and "inf" for the failed probe
Durations == {50, 100, 600, 6000, Inf}
\* configured dedup thresholds; 500 is the default
DedupThresholds == {0, 500}

-----------------------------------------------------------------------------
(* Python helpers *)

Range(s) == {s[i] : i \in 1..Len(s)}

Min(a, b) == IF a <= b THEN a ELSE b
Max(a, b) == IF a >= b THEN a ELSE b

SetMin(S) == CHOOSE x \in S : \A y \in S : x <= y

\* the elements of a set of integers in ascending order
RECURSIVE SortedOfSet(_)
SortedOfSet(S) ==
    IF S = {} THEN <<>>
    ELSE LET m == SetMin(S) IN <<m>> \o SortedOfSet(S \ {m})

\* the distinct elements of a list in order of first appearance
RECURSIVE FirstAppearances(_, _)
FirstAppearances(xs, seen) ==
    IF xs = <<>> THEN <<>>
    ELSE IF Head(xs) \in seen THEN FirstAppearances(Tail(xs), seen)
    ELSE <<Head(xs)>> \o FirstAppearances(Tail(xs), seen \cup {Head(xs)})

\* a slip: the distinct timestamps are taken in list order, the sort is left out
SortedDistinctUnsorted(timestamps_ms) == FirstAppearances(timestamps_ms, {})

\* line 134: sorted(set(timestamps_ms))
SortedDistinct(timestamps_ms) == SortedOfSet(Range(timestamps_ms))

\* dict: keys in insertion order, lookup, membership, d[k] = v
DictKeys(d) == [i \in 1..Len(d) |-> d[i][1]]
DictHas(d, k) == \E i \in 1..Len(d) : d[i][1] = k
DictGet(d, k) == d[CHOOSE i \in 1..Len(d) : d[i][1] = k][2]
DictSet(d, k, v) ==
    IF DictHas(d, k)
    THEN [i \in 1..Len(d) |-> IF d[i][1] = k THEN <<k, v>> ELSE d[i]]
    ELSE Append(d, <<k, v>>)

-----------------------------------------------------------------------------
(* Planner *)

\* float arithmetic on a duration that may be float('inf')
FloatMinus(x, y) == IF x = Inf THEN Inf ELSE x - y
FloatMin(x, y) == IF y = Inf THEN x ELSE Min(x, y)

\* clamped_ms / 1000.0
Seconds(ms) == <<ms, 1000>>

\* a slip: a negative timestamp is clamped to 0, not rejected
ValidateTimestampAcceptsNegative(timestamp_ms, max_duration_ms) ==
    Seconds(Max(0, FloatMin(timestamp_ms, FloatMinus(max_duration_ms, 100))))

\* a slip: the 100 ms buffer before the end of the stream is left out
ValidateTimestampNoBuffer(timestamp_ms, max_duration_ms) ==
    IF timestamp_ms < 0
    THEN None
    ELSE Seconds(Max(0, FloatMin(timestamp_ms, max_duration_ms)))

\* a slip: the lower bound max(0, ...) is left out
ValidateTimestampNoFloor(timestamp_ms, max_duration_ms) ==
    IF timestamp_ms < 0
    THEN None
    ELSE Seconds(FloatMin(timestamp_ms, FloatMinus(max_duration_ms, 100)))

\* _validate_timestamp: None for a negative (or non-numeric) timestamp, else
\* max(0, min(timestamp_ms, max_duration_ms - 100)) / 1000.0
ValidateTimestamp(timestamp_ms, max_duration_ms) ==
    IF timestamp_ms < 0
    THEN None
    ELSE LET max_timestamp_ms == FloatMinus(max_duration_ms, 100)
             clamped_ms == Max(0, FloatMin(timestamp_ms, max_timestamp_ms))
         IN  Seconds(clamped_ms)

\* a slip: a kept timestamp is put at the front of the list
RECURSIVE DedupSweepPrepends(_, _, _, _)
DedupSweepPrepends(sorted_timestamps, i, deduplicated, threshold) ==
    IF i > Len(sorted_timestamps) THEN deduplicated
    ELSE LET ts == sorted_timestamps[i] IN
         IF ts - deduplicated[1] >= threshold
         THEN DedupSweepPrepends(sorted_timestamps, i + 1,
                                 <<ts>> \o deduplicated, threshold)
         ELSE DedupSweepPrepends(sorted_timestamps, i + 1, deduplicated, threshold)

\* a slip: the gap is measured against deduplicated[0], the first kept timestamp
RECURSIVE DedupSweepFromFirstKept(_, _, _, _)
DedupSweepFromFirstKept(sorted_timestamps, i, deduplicated, threshold) ==
    IF i > Len(sorted_timestamps) THEN deduplicated
    ELSE LET ts == sorted_timestamps[i] IN
         IF ts - deduplicated[1] >= threshold
         THEN DedupSweepFromFirstKept(sorted_timestamps, i + 1,
                                      Append(deduplicated, ts), threshold)
         ELSE DedupSweepFromFirstKept(sorted_timestamps, i + 1, deduplicated, threshold)

\* a slip: the candidate before the current one is the one kept
RECURSIVE DedupSweepKeepsPrevious(_, _, _, _)
DedupSweepKeepsPrevious(sorted_timestamps, i, deduplicated, threshold) ==
    IF i > Len(sorted_timestamps) THEN deduplicated
    ELSE LET ts == sorted_timestamps[i] IN
         IF ts - deduplicated[Len(deduplicated)] >= threshold
         THEN DedupSweepKeepsPrevious(sorted_timestamps, i + 1,
                                      Append(deduplicated, sorted_timestamps[i - 1]),
                                      threshold)
         ELSE DedupSweepKeepsPrevious(sorted_timestamps, i + 1, deduplicated, threshold)

\* a slip: the gap is measured against the previous candidate, kept or not
RECURSIVE DedupSweepFromPrevious(_, _, _, _)
DedupSweepFromPrevious(sorted_timestamps, i, deduplicated, threshold) ==
    IF i > Len(sorted_timestamps) THEN deduplicated
    ELSE LET ts == sorted_timestamps[i] IN
         IF ts - sorted_timestamps[i - 1] >= threshold
         THEN DedupSweepFromPrevious(sorted_timestamps, i + 1,
                                     Append(deduplicated, ts), threshold)
         ELSE DedupSweepFromPrevious(sorted_timestamps, i + 1, deduplicated, threshold)

\* the loop at lines 137-139 over sorted_timestamps[i..], deduplicated so far
RECURSIVE DedupSweep(_, _, _, _)
DedupSweep(sorted_timestamps, i, deduplicated, threshold) ==
    IF i > Len(sorted_timestamps) THEN deduplicated
    ELSE LET ts == sorted_timestamps[i] IN
         IF ts - deduplicated[Len(deduplicated)] >= threshold
         THEN DedupSweep(sorted_timestamps, i + 1, Append(deduplicated, ts), threshold)
         ELSE DedupSweep(sorted_timestamps, i + 1, deduplicated, threshold)

\* _deduplicate_timestamps
DeduplicateTimestamps(timestamps_ms, threshold) ==
    IF timestamps_ms = <<>> THEN <<>>
    ELSE LET sorted_timestamps == SortedDistinct(timestamps_ms)
         IN  DedupSweep(sorted_timestamps, 2, <<sorted_timestamps[1]>>, threshold)

\* a slip: the latest event at a timestamp is put first in its list
RECURSIVE TimestampToEventsLatestFirst(_, _, _)
TimestampToEventsLatestFirst(evs, i, d) ==
    IF i > Len(evs) THEN d
    ELSE IF evs[i] = None THEN TimestampToEventsLatestFirst(evs, i + 1, d)
    ELSE LET timestamp_ms == Val(evs[i])
             old == IF DictHas(d, timestamp_ms) THEN DictGet(d, timestamp_ms) ELSE <<>>
         IN  TimestampToEventsLatestFirst(evs, i + 1,
                                          DictSet(d, timestamp_ms, <<i - 1>> \o old))

\* lines 247-250: timestamp_to_events, a dict timestamp -> list of event indices
\* (0-based, as enumerate gives them)
RECURSIVE TimestampToEvents(_, _, _)
TimestampToEvents(evs, i, d) ==
    IF i > Len(evs) THEN d
    ELSE IF evs[i] = None THEN TimestampToEvents(evs, i + 1, d)
    ELSE LET timestamp_ms == Val(evs[i])
             old == IF DictHas(d, timestamp_ms) THEN DictGet(d, timestamp_ms) ELSE <<>>
         IN  TimestampToEvents(evs, i + 1, DictSet(d, timestamp_ms, Append(old, i - 1)))

\* a slip: the file name holds neither the event index nor the timestamp
OutputPathFixedName(first_event_idx, timestamp_ms) ==
    [dir |-> "screenshots_dir",
     name |-> [prefix |-> "event", number |-> 1, ms |-> 0, format |-> "jpg"]]

\* the f-string at line 261 joined to screenshots_dir at 262
OutputPath(first_event_idx, timestamp_ms) ==
    [dir |-> "screenshots_dir",
     name |-> [prefix |-> "event", number |-> first_event_idx + 1,
               ms |-> timestamp_ms, format |-> "jpg"]]

\* the loop at lines 256-264
RECURSIVE PlanLoop(_, _, _, _, _)
PlanLoop(kept_timestamps, i, timestamp_to_events, max_duration_ms, tasks) ==
    IF i > Len(kept_timestamps) THEN tasks
    ELSE LET timestamp_ms == kept_timestamps[i]
             timestamp_sec == ValidateTimestamp(timestamp_ms, max_duration_ms)
         IN  IF timestamp_sec # None
             THEN LET first_event_idx == DictGet(timestamp_to_events, timestamp_ms)[1]
                      output_path == OutputPath(first_event_idx, timestamp_ms)
                  IN  PlanLoop(kept_timestamps, i + 1, timestamp_to_events,
                               max_duration_ms,
                               DictSet(tasks, timestamp_ms,
                                       [timestamp_sec |-> timestamp_sec,
                                        output_path |-> output_path,
                                        first_event_idx |-> first_event_idx]))
             ELSE PlanLoop(kept_timestamps, i + 1, timestamp_to_events,
                           max_duration_ms, tasks)

\* line 253: the deduplicated keys of timestamp_to_events
UniqueTimestamps(evs, threshold) ==
    DeduplicateTimestamps(DictKeys(TimestampToEvents(evs, 1, <<>>)), threshold)

\* _prepare_extraction_tasks
PrepareExtractionTasks(evs, max_duration_ms, threshold) ==
    PlanLoop(UniqueTimestamps(evs, threshold), 1, TimestampToEvents(evs, 1, <<>>),
             max_duration_ms, <<>>)

\* the lists of at most n events
EventLists(n) == UNION {[1..k -> EventTimestamps] : k \in 0..n}

\* the candidates 1000, 1200, 1205, 5000 of four events
ScenarioEvents == <<Some(1000), Some(1200), Some(1205), Some(5000)>>

PlannerInit ==
    /\ events \in EventLists(MaxEvents) \cup {ScenarioEvents}
    /\ video_duration_ms \in Durations
    /\ dedup_threshold_ms \in DedupThresholds
    /\ unique_timestamps = <<>>
    /\ extraction_tasks = <<>>
    /\ plan_history = <<>>

\* one call of _prepare_extraction_tasks on the current event list
Plan ==
    /\ Len(plan_history) < MaxPlanRuns
    /\ unique_timestamps' = UniqueTimestamps(events, dedup_threshold_ms)
    /\ extraction_tasks' =
           PrepareExtractionTasks(events, video_duration_ms, dedup_threshold_ms)
    /\ plan_history' = Append(plan_history,
                              [events |-> events, tasks |-> extraction_tasks'])
    /\ UNCHANGED <<events, video_duration_ms, dedup_threshold_ms>>
    /\ UNCHANGED notPlannerVars

\* Between two calls the caller lists the same candidate timestamps differently:
\* rotated, with the first two events exchanged, or without a last event that
\* adds no candidate (its timestamp is None or an earlier event has it).  Every
\* two lists with the same candidate set are linked by a chain of such steps.
Resupply ==
    /\ Len(plan_history) = 1
    /\ events = plan_history[1].events
    /\ Len(events) >= 2
    /\ \/ events' = Tail(events) \o <<Head(events)>>
       \/ events' = <<events[2], events[1]>> \o SubSeq(events, 3, Len(events))
       \/ /\ \/ events[Len(events)] = None
             \/ \E i \in 1..(Len(events) - 1) : events[i] = events[Len(events)]
          /\ events' = SubSeq(events, 1, Len(events) - 1)
    /\ UNCHANGED <<video_duration_ms, dedup_threshold_ms, unique_timestamps,
                   extraction_tasks, plan_history>>
    /\ UNCHANGED notPlannerVars

PlannerNext == Plan \/ Resupply

-----------------------------------------------------------------------------
(* Executor *)

\* how one subprocess.run of the capture tool can end (lines 319-339):
\*   ok       returncode 0 and output_path.exists()
\*   nonzero  returncode # 0
\*   missing  returncode 0, output file absent
\*   timeout  subprocess.TimeoutExpired
\*   error    any other Exception (tool not found, OSError, ...)
ToolResults == {"ok", "nonzero", "missing", "timeout", "error"}

\* a slip: `and output_path.exists()` is left out of the test at line 326
ExtractSingleScreenshotNoExistsCheck(tool) ==
    IF tool \in {"ok", "missing"} THEN [exception |-> FALSE, value |-> TRUE]
    ELSE [exception |-> FALSE, value |-> FALSE]

\* lines 316-339: what _extract_single_screenshot hands to its future.
\* Both exception kinds are caught (334, 337) and turned into False.
ExtractSingleScreenshot(tool) ==
    IF tool = "ok" THEN [exception |-> FALSE, value |-> TRUE]
    ELSE IF tool \in {"nonzero", "missing"} THEN [exception |-> FALSE, value |-> FALSE]
    ELSE IF tool = "timeout" THEN [exception |-> FALSE, value |-> FALSE]
    ELSE [exception |-> FALSE, value |-> FALSE]

\* a slip: the whole path is stored, not output_path.name
ResultEntryFullPath(fut, task) ==
    IF fut.exception THEN None
    ELSE IF fut.value THEN Some(task.output_path)
    ELSE None

\* a slip: the success flag is not tested, every returned future counts as success
ResultEntryIgnoresFlag(fut, task) ==
    IF fut.exception THEN None
    ELSE Some(task.output_path.name)

\* lines 369-379: the value written to results[timestamp_ms] for a finished future
ResultEntry(fut, task) ==
    IF fut.exception THEN None
    ELSE IF fut.value THEN Some(task.output_path.name)
    ELSE None

\* line 377: `except Exception` around future.result() catches what a worker raised
CollectorCatches(fut) == TRUE

\* the plans handed to the executor: what the planner makes of 0..MaxTasks events
\* one second apart, duration unknown, default threshold
ExecutorPlans ==
    {PrepareExtractionTasks([i \in 1..n |-> Some(1000 * (i - 1))], Inf, 500) :
        n \in 0..MaxTasks}

RECURSIVE SumLen(_, _)
SumLen(f, S) ==
    IF S = {} THEN 0
    ELSE LET c == CHOOSE x \in S : TRUE IN Len(f[c]) + SumLen(f, S \ {c})
TotalTasks(f) == SumLen(f, Calls)

Keys(c) == Range(DictKeys(call_tasks[c]))

NotCreated == [state |-> "NONE", exception |-> FALSE, value |-> FALSE]
Pending == [state |-> "PENDING", exception |-> FALSE, value |-> FALSE]
Finished(outcome) ==
    [state |-> "FINISHED", exception |-> outcome.exception, value |-> outcome.value]

\* tasks of call c a pool thread is currently executing
Busy(c) == {k \in Keys(c) : task_pc[c][k] \in {"acquire", "running"}}

\* capture-tool invocations between semaphore acquire and release, all calls
InFlight ==
    UNION {{<<c, k>> : k \in {j \in Keys(c) : task_pc[c][j] = "running"}} : c \in Calls}

ExecutorInit ==
    /\ semaphore = max_concurrent_extractions
    /\ call_tasks \in {f \in [Calls -> ExecutorPlans] : TotalTasks(f) <= MaxTasks}
    /\ call_pc = [c \in Calls |-> "submit"]
    /\ submitted = [c \in Calls |-> 0]
    /\ work_queue = [c \in Calls |-> <<>>]
    /\ task_pc = [c \in Calls |-> [k \in Keys(c) |-> "unsubmitted"]]
    /\ tool_result = [c \in Calls |-> [k \in Keys(c) |-> "none"]]
    /\ future = [c \in Calls |-> [k \in Keys(c) |-> NotCreated]]
    /\ invocations = [c \in Calls |-> [k \in Keys(c) |-> 0]]
    /\ results = [c \in Calls |-> <<>>]
    /\ recorded = [c \in Calls |-> [k \in Keys(c) |-> 0]]
    /\ raised = [c \in Calls |-> FALSE]

\* lines 357-364: executor.submit of the next item of extraction_tasks
Submit(c) ==
    /\ call_pc[c] = "submit"
    /\ submitted[c] < Len(call_tasks[c])
    /\ LET k == call_tasks[c][submitted[c] + 1][1] IN
          /\ work_queue' = [work_queue EXCEPT ![c] = Append(@, k)]
          /\ task_pc' = [task_pc EXCEPT ![c][k] = "queued"]
          /\ future' = [future EXCEPT ![c][k] = Pending]
    /\ submitted' = [submitted EXCEPT ![c] = @ + 1]
    /\ UNCHANGED <<semaphore, call_pc, call_tasks, tool_result, invocations,
                   results, recorded, raised>>
    /\ UNCHANGED notExecutorVars

\* line 367: the submit loop is over, as_completed starts
StartCollecting(c) ==
    /\ call_pc[c] = "submit"
    /\ submitted[c] = Len(call_tasks[c])
    /\ call_pc' = [call_pc EXCEPT ![c] = "collect"]
    /\ UNCHANGED <<semaphore, call_tasks, submitted, work_queue, task_pc,
                   tool_result, future, invocations, results, recorded, raised>>
    /\ UNCHANGED notExecutorVars

\* a pool thread (at most max_workers of them, line 354) takes the oldest queued
\* work item and enters _extract_single_screenshot
WorkerTake(c) ==
    /\ work_queue[c] # <<>>
    /\ Cardinality(Busy(c)) < max_concurrent_extractions
    /\ task_pc' = [task_pc EXCEPT ![c][Head(work_queue[c])] = "acquire"]
    /\ work_queue' = [work_queue EXCEPT ![c] = Tail(@)]
    /\ UNCHANGED <<semaphore, call_pc, call_tasks, submitted, tool_result, future,
                   invocations, results, recorded, raised>>
    /\ UNCHANGED notExecutorVars

\* a slip: the permit is taken without waiting for one to be free
SemaphoreAcquireNoWait(value) == [enabled |-> TRUE, value |-> value - 1]

\* threading.Semaphore.acquire: blocks while no permit is free
SemaphoreAcquire(value) == [enabled |-> value > 0, value |-> value - 1]

\* line 315 `with self._semaphore` entered, then 317-319: the tool is launched
Acquire(c, k) ==
    /\ task_pc[c][k] = "acquire"
    /\ SemaphoreAcquire(semaphore).enabled
    /\ semaphore' = SemaphoreAcquire(semaphore).value
    /\ task_pc' = [task_pc EXCEPT ![c][k] = "running"]
    /\ invocations' = [invocations EXCEPT ![c][k] = @ + 1]
    /\ UNCHANGED <<call_pc, call_tasks, submitted, work_queue, tool_result, future,
                   results, recorded, raised>>
    /\ UNCHANGED notExecutorVars

\* a slip: the permit is kept when the block is left
SemaphoreReleaseLeaks(value) == value

\* threading.Semaphore.release, on leaving `with self._semaphore` (line 315)
SemaphoreRelease(value) == value + 1

\* a slip: the pool thread stores the outcome in results itself
FinishWritesResult(c, k) ==
    /\ task_pc[c][k] = "running"
    /\ \E tool \in ToolResults :
          /\ tool_result' = [tool_result EXCEPT ![c][k] = tool]
          /\ future' = [future EXCEPT ![c][k] = Finished(ExtractSingleScreenshot(tool))]
          /\ results' = [results EXCEPT ![c] =
                             DictSet(@, k, ResultEntry(Finished(ExtractSingleScreenshot(tool)),
                                                       DictGet(call_tasks[c], k)))]
    /\ semaphore' = SemaphoreRelease(semaphore)
    /\ task_pc' = [task_pc EXCEPT ![c][k] = "done"]
    /\ UNCHANGED <<call_pc, call_tasks, submitted, work_queue, invocations,
                   recorded, raised>>
    /\ UNCHANGED notExecutorVars

\* lines 319-339: the invocation ends one of the five ways, the `with` block is
\* left (permit released) and the future gets the returned value
Finish(c, k) ==
    /\ task_pc[c][k] = "running"
    /\ \E tool \in ToolResults :
          /\ tool_result' = [tool_result EXCEPT ![c][k] = tool]
          /\ future' = [future EXCEPT ![c][k] = Finished(ExtractSingleScreenshot(tool))]
    /\ semaphore' = SemaphoreRelease(semaphore)
    /\ task_pc' = [task_pc EXCEPT ![c][k] = "done"]
    /\ UNCHANGED <<call_pc, call_tasks, submitted, work_queue, invocations,
                   results, recorded, raised>>
    /\ UNCHANGED notExecutorVars

\* lines 367-379: as_completed yields a finished future not yet yielded
Collect(c, k) ==
    /\ call_pc[c] = "collect"
    /\ future[c][k].state = "FINISHED"
    /\ recorded[c][k] = 0
    /\ IF future[c][k].exception /\ ~CollectorCatches(future[c][k])
       THEN /\ raised' = [raised EXCEPT ![c] = TRUE]
            /\ call_pc' = [call_pc EXCEPT ![c] = "returned"]
            /\ UNCHANGED <<results, recorded>>
       ELSE /\ results' = [results EXCEPT ![c] =
                               DictSet(@, k, ResultEntry(future[c][k],
                                                         DictGet(call_tasks[c], k)))]
            /\ recorded' = [recorded EXCEPT ![c][k] = @ + 1]
            /\ UNCHANGED <<raised, call_pc>>
    /\ UNCHANGED <<semaphore, call_tasks, submitted, work_queue, task_pc,
                   tool_result, future, invocations>>
    /\ UNCHANGED notExecutorVars

\* line 381: every future has been yielded, the pool is shut down, results returned
Return(c) ==
    /\ call_pc[c] = "collect"
    /\ \A k \in Keys(c) : recorded[c][k] > 0
    /\ call_pc' = [call_pc EXCEPT ![c] = "returned"]
    /\ UNCHANGED <<semaphore, call_tasks, submitted, work_queue, task_pc,
                   tool_result, future, invocations, results, recorded, raised>>
    /\ UNCHANGED notExecutorVars

ExecutorNext ==
    \E c \in Calls :
        \/ Submit(c)
        \/ StartCollecting(c)
        \/ WorkerTake(c)
        \/ \E k \in Keys(c) : Acquire(c, k)
        \/ \E k \in Keys(c) : Finish(c, k)
        \/ \E k \in Keys(c) : Collect(c, k)
        \/ Return(c)

-----------------------------------------------------------------------------
(* Duration probe: _get_video_duration_ms *)

\* What one ffprobe invocation can report to a strategy.
\*   timeout     subprocess.TimeoutExpired (line 220)
\*   error       another exception of subprocess.run (line 223)
\*   nonzero     returncode # 0 (line 186)
\*   malformed   json.loads raises
\*   nostreams   "streams" absent or empty (strategies 1 and 2)
\*   missing     the value is absent or empty
\*   N/A         the value is the string "N/A" (strategies 0 and 1)
\*   unparsable  float() or int() raises on the value
\*   duration    a duration in seconds, sec = <<numerator, denominator>>
\*   frames      nb_read_frames and r_frame_rate, the rate "num/den" or "num"
CommonFailures == {"timeout", "error", "nonzero", "malformed", "missing", "unparsable"}

SecondsReported == {<<0 - 1, 1>>, <<0, 1>>, <<3, 5>>, <<6, 1>>}
FrameCounts == {0, 18}
FrameRates == {[slash |-> TRUE, num |-> 30, den |-> 1],
               [slash |-> TRUE, num |-> 0, den |-> 0],
               [slash |-> FALSE, num |-> 30, den |-> 1],
               [slash |-> FALSE, num |-> 0, den |-> 1]}

Reports(i) ==
    IF i = 0
    THEN {[kind |-> k] : k \in CommonFailures \cup {"N/A"}}
            \cup {[kind |-> "duration", sec |-> x] : x \in SecondsReported}
    ELSE IF i = 1
    THEN {[kind |-> k] : k \in CommonFailures \cup {"N/A", "nostreams"}}
            \cup {[kind |-> "duration", sec |-> x] : x \in SecondsReported}
    ELSE {[kind |-> k] : k \in CommonFailures \cup {"nostreams"}}
            \cup {[kind |-> "frames", frame_count |-> n, frame_rate |-> r] :
                     n \in FrameCounts, r \in FrameRates}

\* what the body of the loop does with a report
Returns(ms) == [returns |-> TRUE, escapes |-> FALSE, value |-> ms]
NextMethod == [returns |-> FALSE, escapes |-> FALSE, value |-> 0]
Escapes == [returns |-> FALSE, escapes |-> TRUE, value |-> 0]

\* lines 209-218: fps from r_frame_rate, then int(frame_count) / fps * 1000;
\* a zero denominator or a zero rate raises ZeroDivisionError, caught at 223
FrameCountOutcome(frame_count, frame_rate) ==
    IF frame_rate.slash /\ frame_rate.den = 0 THEN NextMethod
    ELSE IF frame_rate.num = 0 THEN NextMethod
    ELSE IF frame_rate.slash
         THEN Returns((frame_count * frame_rate.den * 1000) \div frame_rate.num)
         ELSE Returns((frame_count * 1000) \div frame_rate.num)

\* a slip: only TimeoutExpired is caught inside the loop, so a value float()
\* cannot parse leaves the loop as an exception
StrategyOutcomeCatchesTimeoutOnly(i, report) ==
    IF report.kind = "unparsable" THEN Escapes
    ELSE IF report.kind = "duration"
         THEN Returns((report.sec[1] * 1000) \div report.sec[2])
    ELSE IF report.kind = "frames"
         THEN FrameCountOutcome(report.frame_count, report.frame_rate)
    ELSE NextMethod

\* lines 178-225: one iteration of the loop over methods.
\* float(duration_sec) * 1000 is returned for whatever number the tool gave;
\* every exception is caught at 220 or 223 and the loop goes on.
StrategyOutcome(i, report) ==
    IF report.kind \in {"timeout", "error"} THEN NextMethod
    ELSE IF report.kind = "nonzero" THEN NextMethod
    ELSE IF report.kind = "malformed" THEN NextMethod
    ELSE IF report.kind \in {"nostreams", "missing", "N/A"} THEN NextMethod
    ELSE IF report.kind = "unparsable" THEN NextMethod
    ELSE IF report.kind = "duration"
         THEN Returns((report.sec[1] * 1000) \div report.sec[2])
    ELSE FrameCountOutcome(report.frame_count, report.frame_rate)

\* a slip: the loop skips a method after a failure
AfterFailureSkips(i) == i + 2

\* `continue` / falling through to the next i of enumerate(methods)
AfterFailure(i) == i + 1

\* len(methods), lines 147-175
NumMethods == 3

\* _get_video_duration_ms as a function of the reports of the three methods
RECURSIVE GetVideoDurationMsFrom(_, _)
GetVideoDurationMsFrom(i, reports) ==
    IF i >= NumMethods THEN None
    ELSE LET o == StrategyOutcome(i, reports[i + 1]) IN
         IF o.escapes THEN None
         ELSE IF o.returns THEN Some(o.value)
         ELSE GetVideoDurationMsFrom(AfterFailure(i), reports)

ProbeInit ==
    /\ probe_pc = "trying"
    /\ probe_i = 0
    /\ probe_log = <<>>
    /\ probe_result = None

\* one iteration: the method's command is run once and its report handled
TryMethod ==
    /\ probe_pc = "trying"
    /\ probe_i < NumMethods
    /\ \E report \in Reports(probe_i) :
          LET o == StrategyOutcome(probe_i, report) IN
          /\ probe_log' = Append(probe_log, [method |-> probe_i, report |-> report])
          /\ IF o.escapes
             THEN \* lines 230-232: the outer handler returns None
                  /\ probe_pc' = "returned"
                  /\ probe_result' = None
                  /\ UNCHANGED probe_i
             ELSE IF o.returns
             THEN /\ probe_pc' = "returned"
                  /\ probe_result' = Some(o.value)
                  /\ UNCHANGED probe_i
             ELSE /\ probe_i' = AfterFailure(probe_i)
                  /\ UNCHANGED <<probe_pc, probe_result>>
    /\ UNCHANGED notProbeVars

\* lines 227-228: every method failed
AllMethodsFailed ==
    /\ probe_pc = "trying"
    /\ probe_i >= NumMethods
    /\ probe_pc' = "returned"
    /\ probe_result' = None
    /\ UNCHANGED <<probe_i, probe_log>>
    /\ UNCHANGED notProbeVars

ProbeNext == TryMethod \/ AllMethodsFailed

-----------------------------------------------------------------------------
(* Run: extract_event_screenshots and _update_events_with_screenshots *)

\* events handed to one run
MaxRunEvents == 3

\* ScreenshotConfig.screenshot_subdir
screenshot_subdir == "screenshots"

\* f"{self.config.screenshot_subdir}/{screenshot_path}" (line 394)
RelativePath(name) == [subdir |-> screenshot_subdir, name |-> name]

\* a VideoEvent; the fields the run does not read are given fixed values
VideoEvent(ts, type, path) ==
    [timestamp_ms |-> ts, event_type |-> type, screenshot_path |-> path,
     tool |-> None, description |-> "described upstream", workflow_step |-> None,
     confidence_score |-> None,
     audio_transcript |-> IF type = "TRANSCRIPT" THEN Some("spoken") ELSE None]

\* the events a run may be given: actions at 2000 ms (one of them carrying a
\* reference from an earlier run), a transcript line at 2000 ms, an action at
\* 400 ms, one at 2300 ms (within the default threshold of 2000 ms), an action
\* without timestamp and one with a negative timestamp
RunEventKinds ==
    {VideoEvent(Some(2000), "USER_ACTION", None),
     VideoEvent(Some(2000), "SCREEN_CHANGE", Some(RelativePath(OutputPath(7, 2000).name))),
     VideoEvent(Some(2000), "TRANSCRIPT", None),
     VideoEvent(Some(400), "USER_ACTION", None),
     VideoEvent(Some(2300), "USER_ACTION", None),
     VideoEvent(None, "USER_ACTION", None),
     VideoEvent(Some(0 - 1), "WORKFLOW_STEP", None)}

\* a slip: the transcripts are handed on with the other events
ActionPositionsWithTranscripts(evs, i) == [j \in 1..(Len(evs) - i + 1) |-> j + i - 1]

\* line 66: the positions in `events` of the events that are not transcripts
RECURSIVE ActionPositions(_, _)
ActionPositions(evs, i) ==
    IF i > Len(evs) THEN <<>>
    ELSE IF evs[i].event_type # "TRANSCRIPT"
         THEN <<i>> \o ActionPositions(evs, i + 1)
         ELSE ActionPositions(evs, i + 1)

\* action_events, as the planner reads it: the timestamp_ms of each
ActionTimestamps(evs) ==
    LET pos == ActionPositions(evs, 1)
    IN  [j \in 1..Len(pos) |-> evs[pos[j]].timestamp_ms]

\* what _get_video_duration_ms can return, over every report of every method
ProbeOutcomes ==
    {GetVideoDurationMsFrom(0, <<r0, r1, r2>>) :
        r0 \in Reports(0), r1 \in Reports(1), r2 \in Reports(2)}

\* a slip: a failed probe counts as a video of no length
DurationOrZero(duration) == IF duration = None THEN 0 ELSE Val(duration)

\* lines 80-82: None becomes float('inf')
DurationOrInf(duration) == IF duration = None THEN Inf ELSE Val(duration)

\* a slip: the plan is made before the probe is asked
StageAfterPlanBeforeProbe(stage) ==
    CASE stage = "entry" -> "plan"
      [] stage = "plan" -> "probe"
      [] stage = "probe" -> "mkdir"
      [] stage = "mkdir" -> "batch"
      [] stage = "batch" -> "bind"
      [] stage = "bind" -> "returned"

\* a slip: the directory is made after the batch
StageAfterMkdirLate(stage) ==
    CASE stage = "entry" -> "probe"
      [] stage = "probe" -> "plan"
      [] stage = "plan" -> "batch"
      [] stage = "batch" -> "mkdir"
      [] stage = "mkdir" -> "bind"
      [] stage = "bind" -> "returned"

\* the statements of extract_event_screenshots in their order: checks (61-76),
\* probe (79-82), mkdir (85-86), plan (91-97), batch (100-102), bind (105-110)
StageAfter(stage) ==
    CASE stage = "entry" -> "probe"
      [] stage = "probe" -> "mkdir"
      [] stage = "mkdir" -> "plan"
      [] stage = "plan" -> "batch"
      [] stage = "batch" -> "bind"
      [] stage = "bind" -> "returned"

\* a slip: the outcome collected first is taken, not the one under the event's key
BoundPathByCompletionOrder(event, screenshot_results) ==
    IF event.timestamp_ms # None /\ DictHas(screenshot_results, Val(event.timestamp_ms))
    THEN LET screenshot_path == screenshot_results[1][2]
         IN  IF screenshot_path # None
             THEN [written |-> TRUE, path |-> Some(RelativePath(Val(screenshot_path)))]
             ELSE [written |-> FALSE, path |-> event.screenshot_path]
    ELSE [written |-> FALSE, path |-> event.screenshot_path]

\* a slip: an event is bound to the outcome of the nearest kept timestamp at
\* most the threshold below its own
BoundPathNearestKept(event, screenshot_results) ==
    LET near == {n \in 1..Len(screenshot_results) :
                    /\ event.timestamp_ms # None
                    /\ screenshot_results[n][1] <= Val(event.timestamp_ms)
                    /\ Val(event.timestamp_ms) - screenshot_results[n][1] < dedup_threshold_ms
                    /\ screenshot_results[n][2] # None}
    IN  IF near # {}
        THEN [written |-> TRUE,
              path |-> Some(RelativePath(Val(screenshot_results[CHOOSE n \in near : TRUE][2])))]
        ELSE [written |-> FALSE, path |-> event.screenshot_path]

\* a slip: an event that already carries a reference is passed over
BoundPathUnsetOnly(event, screenshot_results) ==
    IF event.timestamp_ms # None /\ DictHas(screenshot_results, Val(event.timestamp_ms))
          /\ event.screenshot_path = None
    THEN LET screenshot_path == DictGet(screenshot_results, Val(event.timestamp_ms))
         IN  IF screenshot_path # None
             THEN [written |-> TRUE, path |-> Some(RelativePath(Val(screenshot_path)))]
             ELSE [written |-> FALSE, path |-> event.screenshot_path]
    ELSE [written |-> FALSE, path |-> event.screenshot_path]

\* a slip: a failed outcome clears the reference
BoundPathClearsOnFailure(event, screenshot_results) ==
    IF event.timestamp_ms # None /\ DictHas(screenshot_results, Val(event.timestamp_ms))
    THEN LET screenshot_path == DictGet(screenshot_results, Val(event.timestamp_ms))
         IN  IF screenshot_path # None
             THEN [written |-> TRUE, path |-> Some(RelativePath(Val(screenshot_path)))]
             ELSE [written |-> TRUE, path |-> None]
    ELSE [written |-> FALSE, path |-> event.screenshot_path]

\* lines 390-394, one event: whether event.screenshot_path is assigned, and its
\* value afterwards
BoundPath(event, screenshot_results) ==
    IF event.timestamp_ms # None /\ DictHas(screenshot_results, Val(event.timestamp_ms))
    THEN LET screenshot_path == DictGet(screenshot_results, Val(event.timestamp_ms))
         IN  IF screenshot_path # None
             THEN [written |-> TRUE, path |-> Some(RelativePath(Val(screenshot_path)))]
             ELSE [written |-> FALSE, path |-> event.screenshot_path]
    ELSE [written |-> FALSE, path |-> event.screenshot_path]

\* a slip: the event is also moved to the start of the video
UpdateEventRewritesTimestamp(event, screenshot_results) ==
    IF BoundPath(event, screenshot_results).written
    THEN [event EXCEPT !.screenshot_path = BoundPath(event, screenshot_results).path,
                       !.timestamp_ms = Some(0)]
    ELSE event

\* lines 390-394, one event: the object after the loop body; only the
\* attribute screenshot_path is assigned
UpdateEvent(event, screenshot_results) ==
    [event EXCEPT !.screenshot_path = BoundPath(event, screenshot_results).path]

\* a slip: the video path is not checked
ReturnsAtChecksNoPathCheck(evs, exists) ==
    evs = <<>> \/ ActionPositions(evs, 1) = <<>>

\* lines 61-76: no events, no action events, or the video file does not exist
ReturnsAtChecks(evs, exists) ==
    evs = <<>> \/ ActionPositions(evs, 1) = <<>> \/ ~exists

\* the batch call the run makes
RunCall == 1

RunInit ==
    /\ run_pc = "entry"
    /\ run_events \in UNION {[1..k -> RunEventKinds] : k \in 0..MaxRunEvents}
    /\ events_before = run_events
    /\ video_exists \in BOOLEAN
    /\ mkdir_calls = 0
    /\ path_writes = [i \in 1..Len(run_events) |-> 0]

\* lines 61-76: no events, no action events or no video file: return events
RunEntry ==
    /\ run_pc = "entry"
    /\ IF ReturnsAtChecks(run_events, video_exists)
       THEN run_pc' = "returned"
       ELSE run_pc' = StageAfter("entry")
    /\ UNCHANGED <<run_events, events_before, video_exists, mkdir_calls, path_writes>>
    /\ UNCHANGED <<plannerVars, executorVars, probeVars, gateVars, callerVars, commandVars>>

\* lines 79-82: the probe is called and a failed probe replaced by float('inf')
RunProbe ==
    /\ run_pc = "probe"
    /\ \E duration \in ProbeOutcomes :
          /\ probe_result' = duration
          /\ video_duration_ms' = DurationOrInf(duration)
    /\ probe_pc' = "returned"
    /\ run_pc' = StageAfter("probe")
    /\ UNCHANGED <<probe_i, probe_log>>
    /\ UNCHANGED <<events, dedup_threshold_ms, unique_timestamps, extraction_tasks,
                   plan_history>>
    /\ UNCHANGED <<run_events, events_before, video_exists, mkdir_calls, path_writes>>
    /\ UNCHANGED <<executorVars, gateVars, callerVars, commandVars>>

\* lines 85-86: screenshots_dir.mkdir(exist_ok=True)
RunMkdir ==
    /\ run_pc = "mkdir"
    /\ mkdir_calls' = mkdir_calls + 1
    /\ run_pc' = StageAfter("mkdir")
    /\ UNCHANGED <<run_events, events_before, video_exists, path_writes>>
    /\ UNCHANGED <<plannerVars, executorVars, probeVars, gateVars, callerVars, commandVars>>

\* lines 91-97: the plan is made of action_events; an empty plan ends the run
RunPlan ==
    /\ run_pc = "plan"
    /\ events' = ActionTimestamps(run_events)
    /\ unique_timestamps' = UniqueTimestamps(events', dedup_threshold_ms)
    /\ extraction_tasks' =
           PrepareExtractionTasks(events', video_duration_ms, dedup_threshold_ms)
    /\ plan_history' = Append(plan_history,
                              [events |-> events', tasks |-> extraction_tasks'])
    /\ IF extraction_tasks' = <<>>
       THEN run_pc' = "returned"
       ELSE run_pc' = StageAfter("plan")
    /\ UNCHANGED <<video_duration_ms, dedup_threshold_ms>>
    /\ UNCHANGED <<run_events, events_before, video_exists, mkdir_calls, path_writes>>
    /\ UNCHANGED <<executorVars, probeVars, gateVars, callerVars, commandVars>>

\* line 100: _batch_extract_screenshots is entered with the plan
RunBatch ==
    /\ run_pc = "batch"
    /\ call_pc[RunCall] = "idle"
    /\ LET keys == Range(DictKeys(extraction_tasks)) IN
          /\ call_tasks' = [call_tasks EXCEPT ![RunCall] = extraction_tasks]
          /\ call_pc' = [call_pc EXCEPT ![RunCall] = "submit"]
          /\ task_pc' = [task_pc EXCEPT ![RunCall] = [k \in keys |-> "unsubmitted"]]
          /\ tool_result' = [tool_result EXCEPT ![RunCall] = [k \in keys |-> "none"]]
          /\ future' = [future EXCEPT ![RunCall] = [k \in keys |-> NotCreated]]
          /\ invocations' = [invocations EXCEPT ![RunCall] = [k \in keys |-> 0]]
          /\ recorded' = [recorded EXCEPT ![RunCall] = [k \in keys |-> 0]]
    /\ UNCHANGED <<semaphore, submitted, work_queue, results, raised>>
    /\ UNCHANGED <<plannerVars, probeVars, runVars, gateVars, callerVars, commandVars>>

\* lines 100-102: _batch_extract_screenshots has returned screenshot_results
RunBatchReturns ==
    /\ run_pc = "batch"
    /\ call_pc[RunCall] = "returned"
    /\ run_pc' = StageAfter("batch")
    /\ UNCHANGED <<run_events, events_before, video_exists, mkdir_calls, path_writes>>
    /\ UNCHANGED <<plannerVars, executorVars, probeVars, gateVars, callerVars, commandVars>>

\* lines 105-110: _update_events_with_screenshots over action_events, whose
\* elements are the objects of `events`; then events is returned
RunBind ==
    /\ run_pc = "bind"
    /\ LET action == Range(ActionPositions(run_events, 1))
           bound(i) == BoundPath(run_events[i], results[RunCall])
       IN  /\ run_events' =
                 [i \in 1..Len(run_events) |->
                     IF i \in action
                     THEN UpdateEvent(run_events[i], results[RunCall])
                     ELSE run_events[i]]
           /\ path_writes' =
                 [i \in 1..Len(run_events) |->
                     IF i \in action /\ bound(i).written
                     THEN path_writes[i] + 1
                     ELSE path_writes[i]]
    /\ run_pc' = StageAfter("bind")
    /\ UNCHANGED <<events_before, video_exists, mkdir_calls>>
    /\ UNCHANGED <<plannerVars, executorVars, probeVars, gateVars, callerVars, commandVars>>

RunNext ==
    \/ RunEntry
    \/ RunProbe
    \/ RunMkdir
    \/ RunPlan
    \/ RunBatch
    \/ ExecutorNext
    \/ RunBatchReturns
    \/ RunBind

-----------------------------------------------------------------------------
(* Readiness gate: GeminiClient._upload_file_with_retry *)

\* the default of the parameter max_retries; no caller passes another value
max_retries == 3
\* range(10): the status polls one attempt may make
PollBudget == 10

\* uploaded_file.state.name as the service reports it
FileStates == {"PROCESSING", "ACTIVE", "FAILED"}

\* a slip: every state but FAILED counts as ready
IsActiveUnlessFailed(file) == file.state # "FAILED"

\* lines 184 and 190: uploaded_file.state.name == "ACTIVE"
IsActive(file) == file.state = "ACTIVE"

\* a slip: one iteration too many
MorePollsOffByOne(i) == i < PollBudget + 1

\* line 183: `for _ in range(10)` has an iteration left after i of them
MorePolls(i) == i < PollBudget

\* a slip: the last attempt's failure is retried like the others
RetryAllowedAlways(a) == TRUE

\* a slip: the first failure is final
RetryAllowedNever(a) == FALSE

\* lines 194 and 205: attempt < max_retries - 1
RetryAllowed(a) == a < max_retries - 1

\* the service's accounting of one more call, made after ACTIVE was seen or not
CallsAfterActive == IF active_seen THEN calls_after_active + 1 ELSE calls_after_active

GateInit ==
    /\ gate_pc = "upload"
    /\ attempt = 0
    /\ poll_i = 0
    /\ uploaded_file = None
    /\ uploads = 0
    /\ polls = 0
    /\ attempt_polls = 0
    /\ last_poll = None
    /\ active_seen = FALSE
    /\ calls_after_active = 0
    /\ gate_result = None

\* line 178 after `continue` or a handled exception: the next iteration of
\* `for attempt in range(max_retries)`, or the end of the function body
NextAttempt ==
    IF attempt + 1 < max_retries
    THEN /\ attempt' = attempt + 1
         /\ gate_pc' = "upload"
         /\ UNCHANGED gate_result
    ELSE /\ gate_pc' = "returned"
         /\ gate_result' = None
         /\ UNCHANGED attempt

\* line 180: genai.upload_file returns a new file in some state
UploadFile ==
    /\ gate_pc = "upload"
    /\ \E s \in FileStates :
          /\ uploaded_file' = Some([name |-> uploads + 1, state |-> s])
          /\ active_seen' = (active_seen \/ s = "ACTIVE")
    /\ uploads' = uploads + 1
    /\ calls_after_active' = CallsAfterActive
    /\ poll_i' = 0
    /\ attempt_polls' = 0
    /\ gate_pc' = "poll"
    /\ UNCHANGED <<attempt, polls, last_poll, gate_result>>
    /\ UNCHANGED notGateVars

\* line 180: genai.upload_file raises
UploadFileRaises ==
    /\ gate_pc = "upload"
    /\ uploads' = uploads + 1
    /\ calls_after_active' = CallsAfterActive
    /\ attempt_polls' = 0
    /\ gate_pc' = "except"
    /\ UNCHANGED <<attempt, poll_i, uploaded_file, polls, last_poll, active_seen,
                   gate_result>>
    /\ UNCHANGED notGateVars

\* lines 184-185: the file is ACTIVE at the top of an iteration
ReturnActive ==
    /\ gate_pc = "poll"
    /\ MorePolls(poll_i)
    /\ IsActive(Val(uploaded_file))
    /\ gate_pc' = "returned"
    /\ gate_result' = uploaded_file
    /\ UNCHANGED <<attempt, poll_i, uploaded_file, uploads, polls, attempt_polls,
                   last_poll, active_seen, calls_after_active>>
    /\ UNCHANGED notGateVars

\* lines 186-187: sleep, then genai.get_file(uploaded_file.name) returns the
\* file of that name in some state
GetFile ==
    /\ gate_pc = "poll"
    /\ MorePolls(poll_i)
    /\ ~IsActive(Val(uploaded_file))
    /\ \E s \in FileStates :
          /\ uploaded_file' = Some([name |-> Val(uploaded_file).name, state |-> s])
          /\ active_seen' = (active_seen \/ s = "ACTIVE")
    /\ last_poll' = Some(Val(uploaded_file).name)
    /\ polls' = polls + 1
    /\ attempt_polls' = attempt_polls + 1
    /\ calls_after_active' = CallsAfterActive
    /\ poll_i' = poll_i + 1
    /\ UNCHANGED <<gate_pc, attempt, uploads, gate_result>>
    /\ UNCHANGED notGateVars

\* lines 186-187: genai.get_file raises
GetFileRaises ==
    /\ gate_pc = "poll"
    /\ MorePolls(poll_i)
    /\ ~IsActive(Val(uploaded_file))
    /\ last_poll' = Some(Val(uploaded_file).name)
    /\ polls' = polls + 1
    /\ attempt_polls' = attempt_polls + 1
    /\ calls_after_active' = CallsAfterActive
    /\ gate_pc' = "except"
    /\ UNCHANGED <<attempt, poll_i, uploaded_file, uploads, active_seen, gate_result>>
    /\ UNCHANGED notGateVars

\* lines 190-202: the poll loop is over
AfterPolls ==
    /\ gate_pc = "poll"
    /\ ~MorePolls(poll_i)
    /\ IF ~IsActive(Val(uploaded_file))
       THEN IF RetryAllowed(attempt)
            THEN NextAttempt                       \* 195-196: sleep, continue
            ELSE /\ gate_pc' = "except"            \* 198: raise, caught at 204
                 /\ UNCHANGED <<attempt, gate_result>>
       ELSE /\ gate_pc' = "returned"               \* 202
            /\ gate_result' = uploaded_file
            /\ UNCHANGED attempt
    /\ UNCHANGED <<poll_i, uploaded_file, uploads, polls, attempt_polls, last_poll,
                   active_seen, calls_after_active>>
    /\ UNCHANGED notGateVars

\* lines 204-209: the handler of the attempt's try block
Except ==
    /\ gate_pc = "except"
    /\ IF RetryAllowed(attempt)
       THEN NextAttempt                            \* 205-207: sleep, next attempt
       ELSE /\ gate_pc' = "raised"                 \* 209: raise e
            /\ UNCHANGED <<attempt, gate_result>>
    /\ UNCHANGED <<poll_i, uploaded_file, uploads, polls, attempt_polls, last_poll,
                   active_seen, calls_after_active>>
    /\ UNCHANGED notGateVars

GateNext ==
    \/ UploadFile
    \/ UploadFileRaises
    \/ ReturnActive
    \/ GetFile
    \/ GetFileRaises
    \/ AfterPolls
    \/ Except

-----------------------------------------------------------------------------
(* Callers of the gate: analyze_video_chunk and transcribe_audio *)

\* the two methods that hand a file to the remote analysis
GateCallers == {"analyze_video_chunk", "transcribe_audio"}

\* how self.client.generate_content and the parsing of its response can end:
\*   parsed      the response text is JSON that validates
\*   unparsable  json.JSONDecodeError or ValueError (caught at 268 / 333)
\*   error       generate_content or the parsing raised anything else
GenerateOutcomes == {"parsed", "unparsable", "error"}

\* a slip: the failure of the gate is passed on to the caller's caller
OnExceptionReraises(fn) == [raised |-> TRUE, result |-> "none"]

\* lines 280-282 and 344-346: `except Exception` prints and returns []
OnException(fn) == [raised |-> FALSE, result |-> "empty"]

CallerInit ==
    /\ caller \in GateCallers
    /\ caller_pc = "gate"
    /\ generate_calls = 0
    /\ generate_arg = None
    /\ caller_result = "none"
    /\ caller_raised = FALSE

\* lines 226 / 295: _upload_file_with_retry returned a handle
GateHandsOver ==
    /\ caller_pc = "gate"
    /\ gate_pc = "returned"
    /\ caller_pc' = "generate"
    /\ UNCHANGED <<caller, generate_calls, generate_arg, caller_result, caller_raised>>
    /\ UNCHANGED notCallerVars

\* lines 226 / 295 with 280-282 / 344-346: _upload_file_with_retry raised
GateFailed ==
    /\ caller_pc = "gate"
    /\ gate_pc = "raised"
    /\ caller_pc' = "returned"
    /\ caller_result' = OnException(caller).result
    /\ caller_raised' = OnException(caller).raised
    /\ UNCHANGED <<caller, generate_calls, generate_arg>>
    /\ UNCHANGED notCallerVars

\* lines 256-278 / 323-342: generate_content is called with the handle and its
\* response parsed; the value returned is the parsed list, the one-element
\* fallback list of the inner handler, or [] from the outer handler
GenerateContent ==
    /\ caller_pc = "generate"
    /\ generate_calls' = generate_calls + 1
    /\ generate_arg' = gate_result
    /\ \E outcome \in GenerateOutcomes :
          IF outcome = "parsed"
          THEN caller_result' = "parsed" /\ UNCHANGED caller_raised
          ELSE IF outcome = "unparsable"
          THEN caller_result' = "fallback" /\ UNCHANGED caller_raised
          ELSE /\ caller_result' = OnException(caller).result
               /\ caller_raised' = OnException(caller).raised
    /\ caller_pc' = "returned"
    /\ UNCHANGED caller
    /\ UNCHANGED notCallerVars

\* the gate's steps while a caller waits for it
CallerGateStep == caller_pc = "gate" /\ GateNext

CallerNext ==
    \/ CallerGateStep
    \/ GateHandsOver
    \/ GateFailed
    \/ GenerateContent

-----------------------------------------------------------------------------
(* Capture command: _build_ffmpeg_command *)

\* the elements of the command list: an option or literal word, str() of a
\* number of seconds, str() of an integer, str() of the output path
Word(w) == [kind |-> "word", word |-> w, sec |-> None, int |-> None, path |-> None]
SecondsArg(r) == [kind |-> "seconds", word |-> "", sec |-> Some(r), int |-> None, path |-> None]
IntArg(n) == [kind |-> "int", word |-> "", sec |-> None, int |-> Some(n), path |-> None]
PathArg(p) == [kind |-> "path", word |-> "", sec |-> None, int |-> None, path |-> Some(p)]

\* arithmetic on seconds <<numerator, denominator>>
SecondsGreater(r, n) == r[1] > n * r[2]
SecondsMinus(r, n) == <<r[1] - n * r[2], r[2]>>
SecondsMaxZero(r) == IF r[1] < 0 THEN <<0, 1>> ELSE r

\* str.lower() on the image formats of the model
Lower(format) ==
    CASE format = "JPG" -> "jpg"
      [] format = "PNG" -> "png"
      [] OTHER -> format

\* ScreenshotConfig fields the command depends on
ImageFormats == {"jpg", "png", "JPG", "PNG", "webp"}
ImageQualities == {2, 12}
\* target times of a task in milliseconds, around the 10 s mark of line 273
TargetsMs == {0, 500, 9999, 10000, 10001, 15000}

\* a slip: with a coarse seek the precise seek is left out
BuildFfmpegCommandCoarseOnly(config, video_path, timestamp_sec, output_path) ==
    <<Word("ffmpeg")>>
    \o (IF config.fast_seek /\ SecondsGreater(timestamp_sec, 10)
        THEN <<Word("-ss"), SecondsArg(SecondsMaxZero(SecondsMinus(timestamp_sec, 5))),
               Word("-i"), Word(video_path)>>
        ELSE <<Word("-i"), Word(video_path), Word("-ss"), SecondsArg(timestamp_sec)>>)
    \o <<Word("-frames:v"), Word("1"),
         Word("-vf"), Word("scale=trunc(iw/2)*2:trunc(ih/2)*2"),
         Word("-pix_fmt"), Word("yuv420p"),
         Word("-strict"), Word("unofficial")>>
    \o (IF Lower(config.image_format) = "jpg"
        THEN <<Word("-q:v"), IntArg(config.image_quality),
               Word("-huffman"), Word("optimal")>>
        ELSE IF Lower(config.image_format) = "png"
        THEN <<Word("-compression_level"), IntArg(Min(9, config.image_quality)),
               Word("-pix_fmt"), Word("rgba")>>
        ELSE <<>>)
    \o <<Word("-y"), PathArg(output_path)>>

\* _build_ffmpeg_command, lines 270-306
BuildFfmpegCommand(config, video_path, timestamp_sec, output_path) ==
    <<Word("ffmpeg")>>
    \o (IF config.fast_seek /\ SecondsGreater(timestamp_sec, 10)
        THEN <<Word("-ss"), SecondsArg(SecondsMaxZero(SecondsMinus(timestamp_sec, 5)))>>
        ELSE <<>>)
    \o <<Word("-i"), Word(video_path),
         Word("-ss"), SecondsArg(timestamp_sec),
         Word("-frames:v"), Word("1")>>
    \o <<Word("-vf"), Word("scale=trunc(iw/2)*2:trunc(ih/2)*2"),
         Word("-pix_fmt"), Word("yuv420p"),
         Word("-strict"), Word("unofficial")>>
    \o (IF Lower(config.image_format) = "jpg"
        THEN <<Word("-q:v"), IntArg(config.image_quality),
               Word("-huffman"), Word("optimal")>>
        ELSE IF Lower(config.image_format) = "png"
        THEN <<Word("-compression_level"), IntArg(Min(9, config.image_quality)),
               Word("-pix_fmt"), Word("rgba")>>
        ELSE <<>>)
    \o <<Word("-y"), PathArg(output_path)>>

CommandInit ==
    /\ build_pc = "build"
    /\ build_config \in [image_format : ImageFormats, image_quality : ImageQualities,
                         fast_seek : BOOLEAN]
    /\ \E ms \in TargetsMs :
          /\ build_timestamp_sec = Seconds(ms)
          /\ build_output_path = OutputPath(0, ms)
    /\ cmd = <<>>

\* one call of _build_ffmpeg_command (line 317)
BuildCommand ==
    /\ build_pc = "build"
    /\ cmd' = BuildFfmpegCommand(build_config, "video_path", build_timestamp_sec,
                                 build_output_path)
    /\ build_pc' = "built"
    /\ UNCHANGED <<build_config, build_timestamp_sec, build_output_path>>
    /\ UNCHANGED notCommandVars

CommandNext == BuildCommand

-----------------------------------------------------------------------------
(* Specifications *)

\* no probe is running
ProbeIdle ==
    /\ probe_pc = "idle"
    /\ probe_i = 0
    /\ probe_log = <<>>
    /\ probe_result = None

\* the planner alone: the executor is not started
PlannerIdle ==
    /\ semaphore = max_concurrent_extractions
    /\ call_tasks = [c \in Calls |-> <<>>]
    /\ call_pc = [c \in Calls |-> "idle"]
    /\ submitted = [c \in Calls |-> 0]
    /\ work_queue = [c \in Calls |-> <<>>]
    /\ task_pc = [c \in Calls |-> <<>>]
    /\ tool_result = [c \in Calls |-> <<>>]
    /\ future = [c \in Calls |-> <<>>]
    /\ invocations = [c \in Calls |-> <<>>]
    /\ results = [c \in Calls |-> <<>>]
    /\ recorded = [c \in Calls |-> <<>>]
    /\ raised = [c \in Calls |-> FALSE]

\* the executor alone: plans are given, the planner is not run
ExecutorIdle ==
    /\ events = <<>>
    /\ video_duration_ms = Inf
    /\ dedup_threshold_ms = 500
    /\ unique_timestamps = <<>>
    /\ extraction_tasks = <<>>
    /\ plan_history = <<>>

\* no run of extract_event_screenshots is under way
RunIdle ==
    /\ run_pc = "idle"
    /\ run_events = <<>>
    /\ events_before = <<>>
    /\ video_exists = TRUE
    /\ mkdir_calls = 0
    /\ path_writes = <<>>

\* the gate is not called
GateIdle ==
    /\ gate_pc = "idle"
    /\ attempt = 0
    /\ poll_i = 0
    /\ uploaded_file = None
    /\ uploads = 0
    /\ polls = 0
    /\ attempt_polls = 0
    /\ last_poll = None
    /\ active_seen = FALSE
    /\ calls_after_active = 0
    /\ gate_result = None

\* no caller of the gate is running
CallerIdle ==
    /\ caller = "analyze_video_chunk"
    /\ caller_pc = "idle"
    /\ generate_calls = 0
    /\ generate_arg = None
    /\ caller_result = "none"
    /\ caller_raised = FALSE

\* no command is being built
CommandIdle ==
    /\ build_pc = "idle"
    /\ build_config = [image_format |-> "jpg", image_quality |-> 2, fast_seek |-> TRUE]
    /\ build_timestamp_sec = Seconds(0)
    /\ build_output_path = OutputPath(0, 0)
    /\ cmd = <<>>

InitPlanner == PlannerInit /\ PlannerIdle /\ ProbeIdle /\ RunIdle /\ GateIdle /\ CallerIdle /\ CommandIdle
InitExecutor == ExecutorInit /\ ExecutorIdle /\ ProbeIdle /\ RunIdle /\ GateIdle /\ CallerIdle /\ CommandIdle
InitProbe == ProbeInit /\ PlannerIdle /\ ExecutorIdle /\ RunIdle /\ GateIdle /\ CallerIdle /\ CommandIdle
InitGate == GateInit /\ PlannerIdle /\ ExecutorIdle /\ ProbeIdle /\ RunIdle /\ CallerIdle /\ CommandIdle
InitRun == RunInit /\ PlannerIdle /\ ExecutorIdle /\ ProbeIdle /\ GateIdle /\ CallerIdle /\ CommandIdle

SpecPlanner == InitPlanner /\ [][PlannerNext]_vars
SpecExecutor == InitExecutor /\ [][ExecutorNext]_vars
\* the coordinating threads and the pool threads are scheduled fairly, and an
\* invocation that is running ends (exit, timeout or error)
SpecExecutorFair == InitExecutor /\ [][ExecutorNext]_vars /\ WF_vars(ExecutorNext)
SpecProbe == InitProbe /\ [][ProbeNext]_vars
InitCaller == CallerInit /\ GateInit /\ PlannerIdle /\ ExecutorIdle /\ ProbeIdle /\ RunIdle /\ CommandIdle
SpecCaller == InitCaller /\ [][CallerNext]_vars
InitCommand ==
    CommandInit /\ PlannerIdle /\ ExecutorIdle /\ ProbeIdle /\ RunIdle /\ GateIdle /\ CallerIdle
SpecCommand == InitCommand /\ [][CommandNext]_vars
SpecRun == InitRun /\ [][RunNext]_vars
\* the gate runs on one thread to its end: a step that can be taken is taken
SpecGate == InitGate /\ [][GateNext]_vars /\ WF_vars(GateNext)

-----------------------------------------------------------------------------
(* Claims about the executor, checked under SpecExecutor *)

Returned(c) == call_pc[c] = "returned"
Entry(c, k) == DictGet(results[c], k)
TaskOf(c, k) == DictGet(call_tasks[c], k)

\* C1: in every reachable state the number of capture-tool invocations between
\* semaphore acquire and release, over all batch calls made on the instance and
\* whatever the size of their plans, is at most max_concurrent_extractions.
C1_ConcurrencyCeiling == Cardinality(InFlight) <= max_concurrent_extractions

\* the ceiling is reached by invocations of two different calls while a third
\* task waits for a permit
C1_Witness ==
    /\ Cardinality(InFlight) = max_concurrent_extractions
    /\ \E x \in InFlight, y \in InFlight : x[1] # y[1]
    /\ \E c \in Calls : \E k \in Keys(c) : task_pc[c][k] = "acquire"

\* C2: partial-failure isolation.  No task is ever invoked twice, and when a
\* batch call has returned every task of its plan has been invoked exactly
\* once, has run to completion, and has an outcome that is a file name exactly
\* when its own invocation ended ok, whatever happened to its siblings.
C2_FailureIsolation ==
    \A c \in Calls :
        /\ \A k \in Keys(c) : invocations[c][k] <= 1
        /\ Returned(c) =>
              \A k \in Keys(c) :
                  /\ invocations[c][k] = 1
                  /\ task_pc[c][k] = "done"
                  /\ DictHas(results[c], k)
                  /\ (Entry(c, k) # None) <=> (tool_result[c][k] = "ok")

\* a returned call in which one task failed and a sibling succeeded
C2_Witness ==
    \E c \in Calls :
        /\ Returned(c)
        /\ \E k \in Keys(c), j \in Keys(c) :
              /\ tool_result[c][k] \in {"nonzero", "missing", "timeout", "error"}
              /\ tool_result[c][j] = "ok"
              /\ Entry(c, k) = None
              /\ Entry(c, j) # None

\* C3: when _batch_extract_screenshots has returned, the keys of the outcome map
\* are exactly the timestamps of the plan, each written exactly once, and the
\* value is the task's output file name if the task returned success and None
\* if it did not.  Before that, the keys are a subset of the plan's timestamps.
C3_OutcomeMap ==
    \A c \in Calls :
        /\ Range(DictKeys(results[c])) \subseteq Keys(c)
        /\ \A k \in Keys(c) : recorded[c][k] <= 1
        /\ Returned(c) =>
              /\ Range(DictKeys(results[c])) = Keys(c)
              /\ Len(results[c]) = Len(call_tasks[c])
              /\ \A k \in Keys(c) :
                    /\ recorded[c][k] = 1
                    /\ Entry(c, k) = IF future[c][k].value
                                     THEN Some(TaskOf(c, k).output_path.name)
                                     ELSE None

\* a returned call whose map holds a file name and a None
C3_Witness ==
    \E c \in Calls :
        /\ Returned(c)
        /\ Len(results[c]) >= 2
        /\ \E k \in Keys(c) : Entry(c, k) = Some(TaskOf(c, k).output_path.name)
        /\ \E k \in Keys(c) : Entry(c, k) = None

\* C4: no task-level failure leaves _batch_extract_screenshots as an exception.
\* No call ever raises, no future carries an exception, and a task whose
\* invocation timed out, exited non-zero, left no file or raised is, once its
\* future has been collected, recorded as None.
C4_FailuresNeverRaise ==
    \A c \in Calls :
        /\ ~raised[c]
        /\ \A k \in Keys(c) :
              /\ ~future[c][k].exception
              /\ (recorded[c][k] > 0 /\ tool_result[c][k] # "ok") => Entry(c, k) = None

\* a call that returned normally although one invocation timed out and another
\* raised while launching the tool
C4_Witness ==
    \E c \in Calls :
        /\ Returned(c)
        /\ ~raised[c]
        /\ \E k \in Keys(c) : tool_result[c][k] = "timeout" /\ Entry(c, k) = None
        /\ \E k \in Keys(c) : tool_result[c][k] = "error" /\ Entry(c, k) = None

-----------------------------------------------------------------------------
(* Claims about the planner, checked under SpecPlanner *)

Planned == plan_history # <<>>
Abs(x) == IF x < 0 THEN 0 - x ELSE x

\* the candidate timestamps of an event list: those that are not None
Candidates(evs) == {Val(evs[i]) : i \in {j \in 1..Len(evs) : evs[j] # None}}

\* the seek time of a task in milliseconds: timestamp_sec * 1000
SeekMs(task) == (task.timestamp_sec[1] * 1000) \div task.timestamp_sec[2]

DurationKnown == video_duration_ms # Inf

\* C5: no two timestamps returned by _deduplicate_timestamps are closer to each
\* other than dedup_threshold_ms, for every candidate list and threshold.
C5_KeptApart ==
    Planned =>
        \A i \in 1..Len(unique_timestamps), j \in 1..Len(unique_timestamps) :
            i # j => Abs(unique_timestamps[i] - unique_timestamps[j]) >= dedup_threshold_ms

\* a positive threshold removed a candidate lying between two kept timestamps
C5_Witness ==
    /\ Planned
    /\ dedup_threshold_ms > 0
    /\ Len(unique_timestamps) >= 2
    /\ \E c \in Candidates(events) \ Range(unique_timestamps) :
          unique_timestamps[1] < c /\ c < unique_timestamps[2]

\* the kept timestamps below c
KeptBelow(c) == {k \in Range(unique_timestamps) : k < c}
SetMax(S) == CHOOSE x \in S : \A y \in S : x >= y

\* C6: deduplication is the left-to-right greedy sweep over the sorted distinct
\* candidates.  The result is ascending, the smallest candidate is kept, and a
\* later candidate is kept if and only if it is at least dedup_threshold_ms past
\* the last kept timestamp below it.  Candidates 1000, 1200, 1205, 5000 with
\* threshold 500 give 1000, 5000; the run 0, 400, 800, 1200 gives 0, 800.
C6_GreedySweep ==
    /\ DeduplicateTimestamps(<<1000, 1200, 1205, 5000>>, 500) = <<1000, 5000>>
    /\ DeduplicateTimestamps(<<0, 400, 800, 1200>>, 500) = <<0, 800>>
    /\ Planned =>
          /\ \A i \in 1..(Len(unique_timestamps) - 1) :
                unique_timestamps[i] < unique_timestamps[i + 1]
          /\ Range(unique_timestamps) \subseteq Candidates(events)
          /\ \A c \in Candidates(events) :
                IF c = SetMin(Candidates(events))
                THEN c \in Range(unique_timestamps)
                ELSE (c \in Range(unique_timestamps))
                        <=> (c - SetMax(KeptBelow(c)) >= dedup_threshold_ms)
          /\ (events = ScenarioEvents /\ dedup_threshold_ms = 500)
                => unique_timestamps = <<1000, 5000>>

\* the run 0, 400, 800, 1200: 800 is kept although it is within the threshold
\* of the candidate 400, because 400 was not kept
C6_Witness ==
    /\ Planned
    /\ dedup_threshold_ms = 500
    /\ Candidates(events) = {0, 400, 800, 1200}
    /\ unique_timestamps = <<0, 800>>

NonNegative(ts) == SelectSeq(ts, LAMBDA t : t >= 0)

C9_SeeksKeptApart ==
    Planned =>
        \A i \in 1..Len(extraction_tasks), j \in 1..Len(extraction_tasks) :
            i # j => Abs(SeekMs(extraction_tasks[i][2]) - SeekMs(extraction_tasks[j][2]))
                        >= dedup_threshold_ms

\* C10: the planner is deterministic.  Two consecutive calls with the same
\* event list and duration return the identical plan, and two calls whose
\* event lists have the same candidate timestamps, in whatever order and
\* multiplicity, plan the same timestamps in the same order.
C10_PlanDeterministic ==
    \A n \in 1..(Len(plan_history) - 1) :
        /\ plan_history[n].events = plan_history[n + 1].events
              => plan_history[n].tasks = plan_history[n + 1].tasks
        /\ Candidates(plan_history[n].events) = Candidates(plan_history[n + 1].events)
              => DictKeys(plan_history[n].tasks) = DictKeys(plan_history[n + 1].tasks)

\* two calls on differently ordered lists: same timestamps, different owners
C10_Witness ==
    /\ Len(plan_history) >= 2
    /\ plan_history[1].events # plan_history[2].events
    /\ Candidates(plan_history[1].events) = Candidates(plan_history[2].events)
    /\ Len(plan_history[2].tasks) >= 2
    /\ plan_history[1].tasks # plan_history[2].tasks

-----------------------------------------------------------------------------
(* Claims about the duration probe, checked under SpecProbe *)

ProbeReturned == probe_pc = "returned"

\* a report that carries a number the method can turn into a duration
ZeroRate(r) == (r.slash /\ r.den = 0) \/ r.num = 0
Usable(entry) ==
    \/ entry.report.kind = "duration"
    \/ entry.report.kind = "frames" /\ ~ZeroRate(entry.report.frame_rate)

\* the milliseconds a usable report stands for
ReportedMs(entry) ==
    IF entry.report.kind = "duration"
    THEN (entry.report.sec[1] * 1000) \div entry.report.sec[2]
    ELSE LET r == entry.report.frame_rate
             den == IF r.slash THEN r.den ELSE 1
         IN  (entry.report.frame_count * den * 1000) \div r.num

\* C11: the probe invokes its methods in the order 0 (format), 1 (stream),
\* 2 (frame count), each at most once; every method before the last invoked
\* one gave no usable report; a usable report ends the probe at once, and
\* the value returned is the one that report stands for.
C11_ProbeOrder ==
    /\ Len(probe_log) <= NumMethods
    /\ \A j \in 1..Len(probe_log) : probe_log[j].method = j - 1
    /\ \A j \in 1..(Len(probe_log) - 1) : ~Usable(probe_log[j])
    /\ (probe_log # <<>> /\ Usable(probe_log[Len(probe_log)])) =>
          /\ ProbeReturned
          /\ probe_result = Some(ReportedMs(probe_log[Len(probe_log)]))
    /\ (ProbeReturned /\ probe_result # None) => Usable(probe_log[Len(probe_log)])

\* the frame count answered after the format and stream methods had failed
C11_Witness ==
    /\ ProbeReturned
    /\ Len(probe_log) = 3
    /\ probe_log[3].report.kind = "frames"
    /\ probe_result = Some(600)

\* C12: the value returned by the probe is None or a finite positive number
\* of milliseconds.
C12_PositiveOrNone ==
    ProbeReturned =>
        \/ probe_result = None
        \/ Val(probe_result) > 0 /\ Val(probe_result) < Inf

\* a report that is one of the failures a method can have
FailedReport(entry) ==
    \/ entry.report.kind \in {"timeout", "error", "nonzero", "malformed",
                               "nostreams", "missing", "N/A", "unparsable"}
    \/ entry.report.kind = "frames" /\ ZeroRate(entry.report.frame_rate)

\* C13: the probe never raises, and it returns None if and only if all three
\* methods were invoked and each failed (timeout, launch error, non-zero exit,
\* malformed output, missing or "N/A" value, parse or arithmetic error).
C13_NoneIffAllFail ==
    /\ probe_pc # "raised"
    /\ ProbeReturned =>
          ((probe_result = None)
              <=> (/\ Len(probe_log) = NumMethods
                   /\ \A j \in 1..Len(probe_log) : FailedReport(probe_log[j])))

\* None after a timeout, an unparsable value and a zero frame rate
C13_Witness ==
    /\ ProbeReturned
    /\ probe_result = None
    /\ probe_log[1].report.kind = "timeout"
    /\ probe_log[2].report.kind = "unparsable"
    /\ probe_log[3].report.kind = "frames"

-----------------------------------------------------------------------------
(* Claims about the readiness gate, checked under SpecGate *)

GateReturned == gate_pc = "returned"
GateRaised == gate_pc = "raised"

\* C17: the gate raises only in its third attempt, after three uploads, and
\* returns no handle then; it never returns without the service having answered
\* ACTIVE; and when the service never answers ACTIVE the gate ends by raising.
C17_TerminalFailure ==
    /\ [](GateRaised => /\ attempt = max_retries - 1
                        /\ uploads = max_retries
                        /\ gate_result = None)
    /\ [](GateReturned => active_seen)
    /\ <>(active_seen \/ GateRaised)

\* not ACTIVE at any of three uploads and thirty polls: terminal failure
C17_Witness ==
    /\ GateRaised
    /\ uploads = max_retries
    /\ polls = max_retries * PollBudget
    /\ ~active_seen

\* C18: whatever the service answers, the gate uploads at most 3 times, polls
\* at most 10 times after each upload and at most 30 times in all, every poll
\* asks for the file the current attempt uploaded, and the gate ends.
C18_BoundedCalls ==
    /\ [](/\ uploads <= max_retries
          /\ attempt_polls <= PollBudget
          /\ polls <= max_retries * PollBudget
          /\ attempt_polls > 0 => last_poll = Some(uploads))
    /\ <>(GateReturned \/ GateRaised)

\* the full budget is used and the last poll finds the file ACTIVE
C18_Witness ==
    /\ GateReturned
    /\ uploads = max_retries
    /\ polls = max_retries * PollBudget

\* C19: a normal return hands out the handle of the latest upload, last seen
\* ACTIVE; once the service has answered ACTIVE no further call is made and the
\* gate returns; a gate that raised returned nothing; every execution ends in
\* one of the two.
C19_NoPartialOutcome ==
    /\ [](GateReturned => /\ gate_result # None
                          /\ gate_result = uploaded_file
                          /\ Val(gate_result).state = "ACTIVE"
                          /\ Val(gate_result).name = uploads)
    /\ [](calls_after_active = 0)
    /\ [](GateRaised => gate_result = None)
    /\ (active_seen ~> GateReturned)
    /\ <>(GateReturned \/ GateRaised)

\* ACTIVE at the third poll of the second attempt
C19_Witness ==
    /\ GateReturned
    /\ attempt = 1
    /\ attempt_polls = 3
    /\ Val(gate_result).name = 2

-----------------------------------------------------------------------------
(* Claims about the run, checked under SpecRun *)

RunReturned == run_pc = "returned"
BatchReturned == call_pc[RunCall] = "returned"
ProbeFailed == probe_pc = "returned" /\ probe_result = None

\* the run got past the checks of lines 61-76
Admitted ==
    /\ run_events # <<>>
    /\ ActionPositions(run_events, 1) # <<>>
    /\ video_exists

\* the events handed to the binder that carry timestamp k
Group(k) ==
    {i \in Range(ActionPositions(run_events, 1)) : run_events[i].timestamp_ms = Some(k)}

\* C14: when the probe returned None, every non-negative timestamp that
\* survived deduplication has exactly one task, in order, whose seek time is
\* the timestamp itself, and the run goes on: it ends only after the plan was
\* made, and after the batch when the plan has tasks.
C14_NoClampWhenProbeFails ==
    ProbeFailed =>
        /\ RunReturned => Planned
        /\ (RunReturned /\ extraction_tasks # <<>>) => BatchReturned
        /\ Planned =>
              /\ DictKeys(extraction_tasks) = NonNegative(unique_timestamps)
              /\ \A n \in 1..Len(extraction_tasks) :
                    SeekMs(extraction_tasks[n][2]) = extraction_tasks[n][1]

\* the probe failed, 400 and 2000 are both planned unclamped, the run ended
C14_Witness ==
    /\ ProbeFailed
    /\ RunReturned
    /\ DictKeys(extraction_tasks) = <<400, 2000>>
    /\ SeekMs(DictGet(extraction_tasks, 2000)) = 2000

\* C15: for every timestamp of the plan, the events handed to the planner and
\* binder that carry it share one task; the capture tool is invoked at most
\* once for it, exactly once by the end of the run; and if that invocation
\* succeeded every event of the group holds the same reference, the
\* subdirectory and the task's file name.
C15_SharedTimestampOneTask ==
    /\ \A k \in Keys(RunCall) : invocations[RunCall][k] <= 1
    /\ (RunReturned /\ BatchReturned) =>
          \A n \in 1..Len(extraction_tasks) :
              LET k == extraction_tasks[n][1]
                  task == extraction_tasks[n][2]
              IN  /\ Cardinality({m \in 1..Len(extraction_tasks) :
                                      extraction_tasks[m][1] = k}) = 1
                  /\ invocations[RunCall][k] = 1
                  /\ tool_result[RunCall][k] = "ok" =>
                        \A i \in Group(k) :
                            run_events[i].screenshot_path =
                                Some([subdir |-> "screenshots",
                                      name |-> task.output_path.name])

\* three events at 2000 ms, one task, one successful invocation
C15_Witness ==
    /\ RunReturned
    /\ BatchReturned
    /\ Len(run_events) = 3
    /\ Group(2000) = {1, 2, 3}
    /\ Len(extraction_tasks) = 1
    /\ invocations[RunCall][2000] = 1
    /\ tool_result[RunCall][2000] = "ok"
    /\ run_events[1].screenshot_path = run_events[3].screenshot_path

\* the outcome map holds a successful outcome for the timestamp of event i
Matched(i) ==
    /\ run_events[i].timestamp_ms # None
    /\ DictHas(results[RunCall], Val(run_events[i].timestamp_ms))
    /\ DictGet(results[RunCall], Val(run_events[i].timestamp_ms)) # None

\* C16: for every event handed to the binder, the run assigns its screenshot
\* reference at most once, and at the end of the run it has assigned it if and
\* only if the outcome map holds a successful outcome for the event's
\* timestamp; the reference is then the subdirectory and the artifact name,
\* and otherwise it is the reference the event had before the run.
C16_BoundIffSucceeded ==
    \A i \in Range(ActionPositions(run_events, 1)) :
        /\ path_writes[i] <= 1
        /\ RunReturned =>
              /\ path_writes[i] = 1 <=> Matched(i)
              /\ Matched(i) =>
                    run_events[i].screenshot_path =
                        Some([subdir |-> "screenshots",
                              name |-> Val(DictGet(results[RunCall],
                                                   Val(run_events[i].timestamp_ms)))])
              /\ ~Matched(i) =>
                    run_events[i].screenshot_path = events_before[i].screenshot_path

\* the capture at 2000 ms failed and the event keeps its earlier reference,
\* the capture at 400 ms succeeded and that event is bound
C16_Witness ==
    /\ RunReturned
    /\ BatchReturned
    /\ \E i, j \in 1..Len(run_events) :
          /\ run_events[i].timestamp_ms = Some(2000)
          /\ events_before[i].screenshot_path # None
          /\ run_events[i].screenshot_path = events_before[i].screenshot_path
          /\ tool_result[RunCall][2000] = "timeout"
          /\ run_events[j].timestamp_ms = Some(400)
          /\ path_writes[j] = 1
          /\ run_events[j].screenshot_path # None

\* C20 as stated: every run creates the screenshot directory exactly once, and
\* before the first submission.
C20_CreatedOnceInEveryRun ==
    /\ RunReturned => mkdir_calls = 1
    /\ submitted[RunCall] > 0 => mkdir_calls = 1

\* C20 amended: a run that returns at the checks of lines 61-76 (no events, no
\* action events, no video file) creates no directory.  Every other run
\* creates it exactly once, after the probe and before the plan is made and
\* the batch entered, so before any submission; no step of the batch or of its
\* workers creates a directory.
C20_DirectoryUpFront ==
    /\ [](/\ mkdir_calls <= 1
          /\ ~Admitted => mkdir_calls = 0
          /\ (Admitted /\ run_pc \in {"plan", "batch", "bind", "returned"}) =>
                mkdir_calls = 1
          /\ call_pc[RunCall] # "idle" => mkdir_calls = 1)
    /\ [][ExecutorNext => mkdir_calls' = mkdir_calls]_vars

\* a capture is running, the directory was made once
C20_Witness ==
    /\ mkdir_calls = 1
    /\ submitted[RunCall] > 0
    /\ InFlight # {}

-----------------------------------------------------------------------------
(* Further claims about the run, checked under SpecRun *)

\* C21: when the video file does not exist the run stops at the path check:
\* the probe is not called, no plan is made, the directory is not created, the
\* batch is not entered (no capture invocation), and every event is as it was.
C21_MissingVideoFailsFast ==
    ~video_exists =>
        /\ run_pc \in {"entry", "returned"}
        /\ probe_pc = "idle"
        /\ ~Planned
        /\ extraction_tasks = <<>>
        /\ mkdir_calls = 0
        /\ call_pc[RunCall] = "idle"
        /\ invocations[RunCall] = <<>>
        /\ run_events = events_before
        /\ \A i \in 1..Len(run_events) : path_writes[i] = 0

\* a run with action events and no video file has returned
C21_Witness ==
    /\ ~video_exists
    /\ RunReturned
    /\ ActionPositions(run_events, 1) # <<>>

-----------------------------------------------------------------------------
(* Further claims about the executor, checked under SpecExecutor and, for *)
(* termination, under SpecExecutorFair                                     *)

\* C22: the value _extract_single_screenshot hands to its future is True if
\* and only if the capture process exited with code 0 within the timeout and
\* the output file exists; a non-zero exit, a timeout and an absent file each
\* give False, and so does any other error; no exception reaches the future.
C22_SuccessIffExitZeroAndFile ==
    \A c \in Calls : \A k \in Keys(c) :
        future[c][k].state = "FINISHED" =>
            /\ ~future[c][k].exception
            /\ future[c][k].value <=> (tool_result[c][k] = "ok")
            /\ tool_result[c][k] \in {"nonzero", "timeout", "missing", "error"} =>
                  ~future[c][k].value

\* one task succeeded, one left no file, one timed out
C22_Witness ==
    \E c \in Calls : \E i \in Keys(c), j \in Keys(c), k \in Keys(c) :
        /\ future[c][i].state = "FINISHED" /\ tool_result[c][i] = "ok"
        /\ future[c][i].value
        /\ future[c][j].state = "FINISHED" /\ tool_result[c][j] = "missing"
        /\ ~future[c][j].value
        /\ future[c][k].state = "FINISHED" /\ tool_result[c][k] = "timeout"
        /\ ~future[c][k].value

AllReturned == \A c \in Calls : Returned(c)

\* C23: free permits plus invocations in flight is max_concurrent_extractions
\* in every state; a call that has returned has none of its tasks queued,
\* waiting or in flight; when every call has returned all permits are free;
\* and under fair scheduling, every invocation ending one way or another,
\* every call returns.
C23_BatchReturnsPermitsReleased ==
    /\ [](semaphore + Cardinality(InFlight) = max_concurrent_extractions)
    /\ [](\A c \in Calls : Returned(c) => \A k \in Keys(c) : task_pc[c][k] = "done")
    /\ [](AllReturned => (semaphore = max_concurrent_extractions /\ InFlight = {}))
    /\ <>AllReturned

\* more tasks than permits, a timeout and a launch error among them, all
\* calls returned and all permits free
C23_Witness ==
    /\ AllReturned
    /\ semaphore = max_concurrent_extractions
    /\ TotalTasks(call_tasks) > max_concurrent_extractions
    /\ \E c \in Calls : \E k \in Keys(c) : tool_result[c][k] = "timeout"
    /\ \E c \in Calls : \E k \in Keys(c) : tool_result[c][k] = "error"

-----------------------------------------------------------------------------
(* Claims about the run's determinism, order and frame, under SpecRun *)

\* the outcome of the task at timestamp k as the plan and the task's own
\* result determine it
OutcomeOf(k) ==
    IF tool_result[RunCall][k] = "ok"
    THEN Some(DictGet(extraction_tasks, k).output_path.name)
    ELSE None

\* the reference of event i as the events handed in, the plan and the tasks'
\* results determine it
ReferenceOf(i) ==
    LET e == events_before[i] IN
    IF /\ e.event_type # "TRANSCRIPT"
       /\ e.timestamp_ms # None
       /\ DictHas(extraction_tasks, Val(e.timestamp_ms))
       /\ OutcomeOf(Val(e.timestamp_ms)) # None
    THEN Some([subdir |-> "screenshots", name |-> Val(OutcomeOf(Val(e.timestamp_ms)))])
    ELSE e.screenshot_path

\* C24: at the end of a run the outcome map, read as a map, and the events'
\* references are functions of the plan and of each task's own result; the
\* order in which the tasks started, finished and were collected is not in them.
C24_OrderIndependent ==
    (RunReturned /\ BatchReturned) =>
        /\ Range(DictKeys(results[RunCall])) = Range(DictKeys(extraction_tasks))
        /\ \A k \in Range(DictKeys(extraction_tasks)) : Entry(RunCall, k) = OutcomeOf(k)
        /\ \A i \in 1..Len(run_events) : run_events[i].screenshot_path = ReferenceOf(i)

\* the task at 2000 ms was collected before the task at 400 ms, the later
\* failed and the earlier succeeded
C24_Witness ==
    /\ RunReturned
    /\ BatchReturned
    /\ DictKeys(extraction_tasks) = <<400, 2000>>
    /\ DictKeys(results[RunCall]) = <<2000, 400>>
    /\ tool_result[RunCall][400] = "ok"
    /\ tool_result[RunCall][2000] = "nonzero"

\* a reference has been written by the run
SomeReferenceWritten == \E i \in 1..Len(path_writes) : path_writes[i] > 0

\* C25: the stages of a run follow one another as probe, plan, execute, bind.
\* A plan exists only after the probe has returned; the batch is entered only
\* with the finished plan, which does not change afterwards; the binder runs
\* and a reference is written only after the batch has returned, when no task
\* is queued, waiting for a permit or in flight.
C25_StageOrder ==
    /\ Planned => probe_pc = "returned"
    /\ call_pc[RunCall] # "idle" =>
          /\ Planned
          /\ call_tasks[RunCall] = extraction_tasks
          /\ plan_history[Len(plan_history)].tasks = extraction_tasks
    /\ (run_pc = "bind" \/ SomeReferenceWritten) =>
          /\ BatchReturned
          /\ InFlight = {}
          /\ \A k \in Keys(RunCall) : task_pc[RunCall][k] = "done"

\* a run through all four stages: the probe gave a duration, two tasks were
\* planned and run, a reference was written
C25_Witness ==
    /\ RunReturned
    /\ probe_result # None
    /\ Len(extraction_tasks) = 2
    /\ BatchReturned
    /\ SomeReferenceWritten

-----------------------------------------------------------------------------
(* Claims about the gate's callers and its error handling *)

\* C26: analyze_video_chunk and transcribe_audio call generate_content at most
\* once, only after the gate has returned, and with the handle the gate
\* returned, which was last seen ACTIVE; when the gate raised they make no
\* generate_content call and return an empty list; they never raise.
C26_GenerateOnlyWithActiveHandle ==
    /\ generate_calls <= 1
    /\ generate_calls > 0 =>
          /\ GateReturned
          /\ gate_result # None
          /\ Val(gate_result).state = "ACTIVE"
          /\ generate_arg = gate_result
    /\ GateRaised =>
          /\ generate_calls = 0
          /\ caller_pc = "returned" => caller_result = "empty"
    /\ ~caller_raised

\* the gate raised after three attempts and the caller returned []
C26_Witness ==
    /\ GateRaised
    /\ uploads = max_retries
    /\ caller_pc = "returned"
    /\ caller_result = "empty"
    /\ generate_calls = 0

\* C27: an error of the service during an upload or a poll is handled by the
\* attempt's handler, which makes no further call for that attempt: in the
\* first and second attempt it starts the next attempt, in the third it
\* raises; and every attempt begins with an upload of its own, whose file is
\* the one polled from then on.
C27_ErrorEndsAttemptOnly ==
    /\ [][gate_pc = "except" =>
             /\ uploads' = uploads /\ polls' = polls
             /\ IF attempt < max_retries - 1
                THEN gate_pc' = "upload" /\ attempt' = attempt + 1
                ELSE gate_pc' = "raised" /\ attempt' = attempt]_vars
    /\ [][gate_pc = "upload" =>
             /\ uploads' = uploads + 1
             /\ attempt' = attempt
             /\ gate_pc' \in {"poll", "except"}
             /\ gate_pc' = "poll" =>
                   (Val(uploaded_file').name = uploads' /\ attempt_polls' = 0)]_vars
    /\ [](GateRaised => attempt = max_retries - 1)

\* two attempts were ended by errors, one of them at a poll, and the third
\* found the file ACTIVE at once
C27_Witness ==
    /\ GateReturned
    /\ attempt = max_retries - 1
    /\ uploads = max_retries
    /\ polls = 1
    /\ attempt_polls = 0

\* an event without its screenshot reference
OtherFields(event) == [event EXCEPT !.screenshot_path = None]

\* C28: in every state of a run, whatever its outcome, the list has the events
\* it had when the run began, in the same order, and every field of every
\* event other than screenshot_path has the value it had then.
C28_OnlyReferenceChanges ==
    /\ Len(run_events) = Len(events_before)
    /\ \A i \in 1..Len(run_events) :
          /\ OtherFields(run_events[i]) = OtherFields(events_before[i])
          /\ run_events[i].event_type = "TRANSCRIPT" => run_events[i] = events_before[i]

\* a run that bound a reference to the second of three events
C28_Witness ==
    /\ RunReturned
    /\ Len(run_events) = 3
    /\ path_writes[2] = 1
    /\ run_events[2].screenshot_path # events_before[2].screenshot_path
    /\ run_events[1].event_type = "TRANSCRIPT"

-----------------------------------------------------------------------------
(* Further claims about the planner, checked under SpecPlanner *)

\* the 0-based positions in the list evs of the events at timestamp k
PositionsOf(evs, k) == {i - 1 : i \in {j \in 1..Len(evs) : evs[j] = Some(k)}}

\* C29: in every plan made, the owner index of each task is the smallest
\* position, in the list handed to the planner, of an event at the task's
\* original timestamp, and the task's file name holds that index counted from
\* 1 and the original timestamp, not the clamped one.
C29_OwnerIsEarliestEvent ==
    \A h \in 1..Len(plan_history) :
        \A n \in 1..Len(plan_history[h].tasks) :
            LET k == plan_history[h].tasks[n][1]
                task == plan_history[h].tasks[n][2]
                owners == PositionsOf(plan_history[h].events, k)
            IN  /\ owners # {}
                /\ task.first_event_idx = SetMin(owners)
                /\ task.output_path.name.prefix = "event"
                /\ task.output_path.name.number = SetMin(owners) + 1
                /\ task.output_path.name.ms = k

\* two events at 1200 ms, neither the first of the list, in a video of 600 ms:
\* the task is owned by the earlier one, named after 1200 and seeks 500
C29_Witness ==
    /\ Planned
    /\ video_duration_ms = 600
    /\ DictHas(extraction_tasks, 1200)
    /\ PositionsOf(plan_history[Len(plan_history)].events, 1200) = {1, 2}
    /\ DictGet(extraction_tasks, 1200).first_event_idx = 1
    /\ DictGet(extraction_tasks, 1200).output_path.name.number = 2
    /\ SeekMs(DictGet(extraction_tasks, 1200)) = 500

\* C30: in every plan made the tasks are listed in strictly ascending order of
\* their original timestamps, in whatever order the events supply them.
C30_PlanAscending ==
    \A h \in 1..Len(plan_history) :
        \A n \in 1..(Len(plan_history[h].tasks) - 1) :
            plan_history[h].tasks[n][1] < plan_history[h].tasks[n + 1][1]

\* events supplied in descending order, planned in ascending order
C30_Witness ==
    /\ Planned
    /\ plan_history[Len(plan_history)].events = <<Some(1200), Some(400), Some(0)>>
    /\ dedup_threshold_ms = 0
    /\ DictKeys(extraction_tasks) = <<0, 400, 1200>>

-----------------------------------------------------------------------------
(* Claims about empty plans, transcripts and removed timestamps, under SpecRun *)

\* no event of the list supplies a usable candidate: the list is empty, or each
\* event is a transcript or has no timestamp or a negative one
NoUsableCandidate ==
    \A i \in 1..Len(events_before) :
        \/ events_before[i].event_type = "TRANSCRIPT"
        \/ events_before[i].timestamp_ms = None
        \/ Val(events_before[i].timestamp_ms) < 0

\* C31: when no event supplies a usable candidate the plan, if one is made, is
\* empty; the batch is never entered, so the capture tool is not invoked; no
\* event is changed; and the run ends by returning.
C31_EmptyPlanIsNoError ==
    NoUsableCandidate =>
        /\ extraction_tasks = <<>>
        /\ run_pc \in {"entry", "probe", "mkdir", "plan", "returned"}
        /\ call_pc[RunCall] = "idle"
        /\ invocations[RunCall] = <<>>
        /\ run_events = events_before
        /\ \A i \in 1..Len(run_events) : path_writes[i] = 0

\* a run over an event without timestamp and one with a negative timestamp
\* made an empty plan and returned
C31_Witness ==
    /\ NoUsableCandidate
    /\ RunReturned
    /\ Planned
    /\ \E i \in 1..Len(run_events) : run_events[i].timestamp_ms = None
    /\ \E i \in 1..Len(run_events) : run_events[i].timestamp_ms = Some(0 - 1)

-----------------------------------------------------------------------------
(* Claims about the capture command, checked under SpecCommand *)

Built == build_pc = "built"

\* the positions of an option in the command
PositionsOfWord(w) == {j \in 1..Len(cmd) : cmd[j] = Word(w)}
InputAt == CHOOSE j \in PositionsOfWord("-i") : TRUE
SeeksBeforeInput == {j \in PositionsOfWord("-ss") : j < InputAt}
SeeksAfterInput == {j \in PositionsOfWord("-ss") : j > InputAt}
CoarseSeekDue == build_config.fast_seek /\ SecondsGreater(build_timestamp_sec, 10)

\* C32: the command has one input; exactly one seek after it, whose value is
\* the target time; one -frames:v option, with value 1; a seek before the input
\* exactly when fast_seek is set and the target is more than 10 s in, with
\* value target - 5 s; and it ends with -y and the output path.
C32_CommandShape ==
    Built =>
        /\ cmd[1] = Word("ffmpeg")
        /\ Cardinality(PositionsOfWord("-i")) = 1
        /\ Cardinality(SeeksAfterInput) = 1
        /\ \A j \in SeeksAfterInput : cmd[j + 1] = SecondsArg(build_timestamp_sec)
        /\ Cardinality(PositionsOfWord("-frames:v")) = 1
        /\ \A j \in PositionsOfWord("-frames:v") : j > InputAt /\ cmd[j + 1] = Word("1")
        /\ Cardinality(SeeksBeforeInput) = (IF CoarseSeekDue THEN 1 ELSE 0)
        /\ \A j \in SeeksBeforeInput :
              cmd[j + 1] = SecondsArg(SecondsMinus(build_timestamp_sec, 5))
        /\ cmd[Len(cmd) - 1] = Word("-y")
        /\ cmd[Len(cmd)] = PathArg(build_output_path)

\* a command for a target of 15 s with fast_seek: coarse seek to 10 s, then
\* the input, then the precise seek to 15 s
C32_Witness ==
    /\ Built
    /\ build_config.fast_seek
    /\ build_timestamp_sec = Seconds(15000)
    /\ cmd[2] = Word("-ss")
    /\ cmd[3] = SecondsArg(<<10000, 1000>>)
    /\ cmd[4] = Word("-i")
    /\ cmd[6] = Word("-ss")
    /\ cmd[7] = SecondsArg(Seconds(15000))

\* the value of the last -pix_fmt option of the command
LastPixFmt ==
    LET at == PositionsOfWord("-pix_fmt")
        last == CHOOSE j \in at : \A i \in at : i <= j
    IN  cmd[last + 1]

\* C33: for every image format the command holds the scale filter to even
\* dimensions, and the last -pix_fmt option of the command is yuv420p.
C33_EvenYuv420p ==
    Built =>
        /\ \E j \in PositionsOfWord("-vf") :
              cmd[j + 1] = Word("scale=trunc(iw/2)*2:trunc(ih/2)*2")
        /\ PositionsOfWord("-pix_fmt") # {}
        /\ LastPixFmt = Word("yuv420p")

-----------------------------------------------------------------------------
(* Claims about what deduplication keeps, checked under SpecPlanner *)

\* C34: with the duration unknown and a positive threshold, every event of a
\* planned list with a non-negative timestamp t has a task in the plan whose
\* original timestamp k satisfies 0 <= t - k < dedup_threshold_ms, whatever
\* the timestamps of the other events are.
C34_EveryEventRepresented ==
    \A h \in 1..Len(plan_history) :
        (video_duration_ms = Inf /\ dedup_threshold_ms > 0) =>
            \A i \in 1..Len(plan_history[h].events) :
                LET e == plan_history[h].events[i] IN
                (e # None /\ Val(e) >= 0) =>
                    \E n \in 1..Len(plan_history[h].tasks) :
                        LET k == plan_history[h].tasks[n][1] IN
                        0 <= Val(e) - k /\ Val(e) - k < dedup_threshold_ms

-----------------------------------------------------------------------------
(* Claims about events without a task of their own, checked under SpecRun *)

\* event i has a timestamp that is no task's original timestamp
WithoutTask(i) ==
    /\ run_events[i].timestamp_ms # None
    /\ ~DictHas(extraction_tasks, Val(run_events[i].timestamp_ms))

\* C35: in every state of a run, an event whose timestamp is not the original
\* timestamp of any task is as it was when the run began and its screenshot
\* reference was never assigned, whatever the outcome of the tasks of the
\* timestamps near it.
C35_BoundByExactTimestampOnly ==
    \A i \in 1..Len(run_events) :
        WithoutTask(i) =>
            /\ run_events[i] = events_before[i]
            /\ path_writes[i] = 0

\* a finished run on events at 2000 ms and 2300 ms: the only task is that of
\* 2000 ms, it succeeded and its event was bound; the event at 2300 ms was not
C35_Witness ==
    /\ RunReturned
    /\ BatchReturned
    /\ DictKeys(extraction_tasks) = <<2000>>
    /\ tool_result[RunCall][2000] = "ok"
    /\ \E i, j \in 1..Len(run_events) :
          /\ run_events[i].timestamp_ms = Some(2000)
          /\ path_writes[i] = 1
          /\ run_events[j].timestamp_ms = Some(2300)
          /\ WithoutTask(j)
          /\ run_events[j].screenshot_path = None

\* the events of the run that are not transcripts, in order
NonTranscripts == SelectSeq(run_events, LAMBDA e : e.event_type # "TRANSCRIPT")

\* C37: the timestamps the planner is given are those of the events that are
\* not transcripts, in order; the owner of every task is such an event, at the
\* task's timestamp; and in every state of the run each transcript event is as
\* it was when the run began and its reference was never assigned.
C37_TranscriptsStayOut ==
    /\ Planned =>
          /\ Len(events) = Len(NonTranscripts)
          /\ \A j \in 1..Len(events) : events[j] = NonTranscripts[j].timestamp_ms
          /\ \A n \in 1..Len(extraction_tasks) :
                LET owner == extraction_tasks[n][2].first_event_idx + 1
                IN  /\ owner \in 1..Len(NonTranscripts)
                    /\ NonTranscripts[owner].timestamp_ms = Some(extraction_tasks[n][1])
    /\ \A i \in 1..Len(run_events) :
          events_before[i].event_type = "TRANSCRIPT" =>
              /\ run_events[i] = events_before[i]
              /\ path_writes[i] = 0

\* a finished run whose first event is a transcript at 2000 ms and whose
\* second is an action at 2000 ms: the action owns the task, counted without
\* the transcript, and was bound; the transcript has no reference
C37_Witness ==
    /\ RunReturned
    /\ Len(run_events) >= 2
    /\ run_events[1].event_type = "TRANSCRIPT"
    /\ run_events[1].timestamp_ms = Some(2000)
    /\ run_events[1].screenshot_path = None
    /\ run_events[2].event_type = "USER_ACTION"
    /\ run_events[2].timestamp_ms = Some(2000)
    /\ DictHas(extraction_tasks, 2000)
    /\ DictGet(extraction_tasks, 2000).first_event_idx = 0
    /\ path_writes[2] = 1
    /\ run_events[2].screenshot_path # None

-----------------------------------------------------------------------------
(* Claims about the files of a run, checked under SpecRun *)

\* the file the invocation of the run's task k writes
FileOf(k) == DictGet(call_tasks[RunCall], k).output_path

\* the tasks of the run whose capture invocation is in flight
RunningTasks == {k \in Keys(RunCall) : task_pc[RunCall][k] = "running"}

\* C36: in every plan made, no two tasks have the same output path, and in
\* every state of a run no two capture invocations in flight write the same
\* file.
C36_OutputPathsDistinct ==
    /\ \A h \in 1..Len(plan_history) :
          \A n, m \in 1..Len(plan_history[h].tasks) :
              n # m => plan_history[h].tasks[n][2].output_path
                          # plan_history[h].tasks[m][2].output_path
    /\ \A k1, k2 \in RunningTasks : k1 # k2 => FileOf(k1) # FileOf(k2)

\* the invocations for 400 ms and 2000 ms are in flight together; the files
\* are named after the second event and 400 ms, the first event and 2000 ms
C36_Witness ==
    /\ RunningTasks = {400, 2000}
    /\ FileOf(400).name.number = 2
    /\ FileOf(400).name.ms = 400
    /\ FileOf(2000).name.number = 1
    /\ FileOf(2000).name.ms = 2000

-----------------------------------------------------------------------------
(* Claims about who writes the outcome map, checked under SpecExecutor *)

\* the step adds the outcome of the finished future of task k to the map of
\* call c, and is the coordinating thread's: no pool thread moves in it
CollectorWrites(c, k) ==
    /\ call_pc[c] = "collect"
    /\ future[c][k].state = "FINISHED"
    /\ future[c][k].value \in BOOLEAN
    /\ task_pc[c][k] = "done"
    /\ ~DictHas(results[c], k)
    /\ results'[c] = Append(results[c],
                            <<k, ResultEntry(future[c][k], DictGet(call_tasks[c], k))>>)
    /\ UNCHANGED <<task_pc, future, tool_result, semaphore, work_queue>>

\* C38: every step that changes the outcome map of a call is a step of the
\* coordinating thread in its collect loop, adds one entry, for a task whose
\* future has finished and has no entry yet, and is no step of a pool thread;
\* every entry the map has stays as it is in every step.
C38_OnlyCollectorWrites ==
    [][\A c \in Calls :
          /\ Len(results'[c]) >= Len(results[c])
          /\ \A n \in 1..Len(results[c]) : results'[c][n] = results[c][n]
          /\ results'[c] # results[c] => \E k \in Keys(c) : CollectorWrites(c, k)]_vars

\* the outcome of one task is in the map while the invocation of another task
\* of the same call is in flight
C38_Witness ==
    \E c \in Calls : \E k1, k2 \in Keys(c) :
        /\ DictHas(results[c], k1)
        /\ recorded[c][k1] = 1
        /\ task_pc[c][k2] = "running"

-----------------------------------------------------------------------------
(* Claims about repeated deduplication, checked under SpecPlanner *)

\* the timestamps the last call of _deduplicate_timestamps was given
LastInput == Candidates(plan_history[Len(plan_history)].events)

\* C39: the result of _deduplicate_timestamps is strictly ascending, each of
\* its timestamps is one of the timestamps given, and _deduplicate_timestamps
\* applied to the result, with the same threshold, returns the result.
C39_DedupIdempotent ==
    Planned =>
        /\ \A n \in 1..(Len(unique_timestamps) - 1) :
              unique_timestamps[n] < unique_timestamps[n + 1]
        /\ Range(unique_timestamps) \subseteq LastInput
        /\ DeduplicateTimestamps(unique_timestamps, dedup_threshold_ms)
              = unique_timestamps

\* of 0, 400, 800 and 1200 ms the sweep kept 0 and 800 ms, and keeps both
\* again
C39_Witness ==
    /\ Planned
    /\ dedup_threshold_ms = 500
    /\ LastInput = {0, 400, 800, 1200}
    /\ unique_timestamps = <<0, 800>>
    /\ DeduplicateTimestamps(<<0, 800>>, 500) = <<0, 800>>

====
